---- MODULE Spec2Model ----
(***************************************************************************)
(* Model of the boltdb storage backend of FedBOX                           *)
(* (storage/boltdb/repository.go).                                         *)
(*                                                                         *)
(* The bolt file is a tree of buckets.  A bucket is named by the sequence  *)
(* of bucket names that leads to it from the root bucket; the store `db`   *)
(* maps every existing bucket to the values of its two well-known keys.    *)
(* An IRI is the sequence <<scheme, host, segment, ...>> of the parts of   *)
(* its string form, so that "https://h/actors/a" is                        *)
(* <<"https", "h", "actors", "a">>.                                        *)
(***************************************************************************)
EXTENDS Integers, Sequences, FiniteSets, TLC

(***************************************************************************)
(* Bounds of the model.                                                    *)
(***************************************************************************)
\* number of concurrent workers of the concurrent specification
NWorkers == 2
\* nesting allowed to the resolution of stored bare IRIs by loadItem
MaxDepth == 2
\* number of signals the server handles
MaxSignals == 2

(***************************************************************************)
(* IRIs (github.com/go-ap/activitypub, as used by the repository).         *)
(***************************************************************************)
NilIRI == <<>>

Scheme(iri) == iri[1]
Host(iri) == iri[2]
Path(iri) == SubSeq(iri, 3, Len(iri))

\* path.Clean on a slash separated path: empty components disappear
Clean(p) == SelectSeq(p, LAMBDA n : n # "")

\* path.Base: the last non-empty component
Base(p) == IF Clean(p) = <<>> THEN "." ELSE Clean(p)[Len(Clean(p))]

\* t.IRI(it): the IRI of collection t of the item with the given id; the
\* slash is not written twice after an id that ends in one
CollectionIRI(id, t) ==
    IF id # <<>> /\ id[Len(id)] = "" THEN Append(SubSeq(id, 1, Len(id) - 1), t)
    ELSE Append(id, t)

\* iri.Equals(with, checkScheme)
Equals(iri, with, checkScheme) ==
    /\ (iri = NilIRI) = (with = NilIRI)
    /\ iri # NilIRI =>
          /\ checkScheme => Scheme(iri) = Scheme(with)
          /\ Host(iri) = Host(with)
          /\ Clean(Path(iri)) = Clean(Path(with))

\* iris.Contains(r): Equals without the scheme
Contains(iris, r) == \E k \in 1..Len(iris) : Equals(r, iris[k], FALSE)

OfActor == {"inbox", "outbox", "liked", "following", "followers"}
OfObject == {"likes", "shares", "replies"}
HiddenCollections == {"blocked", "ignored"}
FedBOXCollections == {"activities", "actors", "objects", "blocked", "ignored"}
AllColl == OfActor \cup OfObject

ValidCollection(t) == t \in OfActor \/ t \in OfObject

ActorTypes == {"Person", "Service"}

baseURL == <<"https", "h">>

(***************************************************************************)
(* Items.  An item is nil, a bare IRI, a list of items, or an object with  *)
(* an id, a type, the collection properties of Actor and Object, and a     *)
(* list of tags, each a bare IRI or an object.                             *)
(***************************************************************************)
NilItem == [kind |-> "nil"]
IRIItem(iri) == [kind |-> "iri", iri |-> iri]
ItemCollection(items) == [kind |-> "collection", items |-> items]
NoColl == [t \in AllColl |-> NilIRI]

Object(id, type, col) ==
    [kind |-> "object", id |-> id, type |-> type, col |-> col,
     formerType |-> "", deleted |-> FALSE, tag |-> <<>>]

IsNil(it) == it.kind = "nil" \/ (it.kind = "iri" /\ it.iri = NilIRI)
IsIRI(it) == it.kind = "iri"
IsCollection(it) == it.kind = "collection"
IsObject(it) == it.kind = "object"
GetLink(it) == CASE it.kind = "iri" -> it.iri
                 [] it.kind = "object" -> it.id
                 [] OTHER -> NilIRI
GetType(it) == IF it.kind = "object" THEN it.type ELSE ""

(***************************************************************************)
(* The JSON encoding and decoding of what is stored.  An object is encoded *)
(* as the map of its non-empty properties, its tags as the array of their  *)
(* encodings, a tag that is an object in full and a tag that is an IRI as  *)
(* a string; a member list is encoded as an array of IRIs, a bare IRI as a *)
(* string.                                                                 *)
(***************************************************************************)
NoVal == [json |-> "none"]

RECURSIVE encodeFn(_)
RECURSIVE UnmarshalJSON(_)

\* the tags that are written: a nil tag has no encoding
WrittenTags(it) == SelectSeq(it.tag, LAMBDA t : ~IsNil(t))

ObjectKeys(it) ==
    {k \in {"id"} : it.id # NilIRI}
        \cup {k \in {"type"} : it.type # ""}
        \cup {k \in {"formerType"} : it.formerType # ""}
        \cup {k \in {"deleted"} : it.deleted}
        \cup {k \in {"tag"} : WrittenTags(it) # <<>>}
        \cup {t \in AllColl : it.col[t] # NilIRI}

ObjectValue(it, k) ==
    CASE k = "id" -> it.id
      [] k = "type" -> <<it.type>>
      [] k = "formerType" -> <<it.formerType>>
      [] k = "deleted" -> <<"set">>
      [] k = "tag" -> [j \in 1..Len(WrittenTags(it)) |-> encodeFn(WrittenTags(it)[j])]
      [] OTHER -> it.col[k]

\* encodeFn = jsonld.Marshal
encodeFn(it) ==
    CASE it.kind = "object" ->
            [json |-> "object", f |-> [k \in ObjectKeys(it) |-> ObjectValue(it, k)]]
      [] it.kind = "iri" -> [json |-> "string", s |-> it.iri]
      [] it.kind = "collection" ->
            [json |-> "array", a |-> [k \in 1..Len(it.items) |-> GetLink(it.items[k])]]
      [] OTHER -> [json |-> "null"]

\* encodeFn applied to the member list of a collection
encodeIRIs(iris) == [json |-> "array", a |-> iris]

JSONGet(f, k) == IF k \in DOMAIN f THEN f[k] ELSE NilIRI
JSONGetString(f, k) == IF k \in DOMAIN f THEN f[k][1] ELSE ""

\* pub.UnmarshalJSON: the type decides which properties are read
UnmarshalJSON(raw) ==
    CASE raw.json = "object" ->
            LET typ == JSONGetString(raw.f, "type")
                cols == IF typ \in ActorTypes THEN AllColl ELSE OfObject
            IN  [kind |-> "object",
                 id |-> JSONGet(raw.f, "id"),
                 type |-> typ,
                 col |-> [t \in AllColl |->
                              IF t \in cols THEN JSONGet(raw.f, t) ELSE NilIRI],
                 formerType |-> IF typ = "Tombstone"
                                THEN JSONGetString(raw.f, "formerType") ELSE "",
                 deleted |-> typ = "Tombstone" /\ "deleted" \in DOMAIN raw.f,
                 tag |-> [j \in 1..Len(JSONGet(raw.f, "tag")) |->
                              UnmarshalJSON(JSONGet(raw.f, "tag")[j])]]
      [] raw.json = "array" ->
            ItemCollection([k \in 1..Len(raw.a) |-> IRIItem(raw.a[k])])
      [] raw.json = "string" -> IRIItem(raw.s)
      [] OTHER -> NilItem

\* decodeFn(raw, &iris): only an array decodes into a list of IRIs
decodeIRIs(raw) ==
    IF raw.json = "array" THEN [iris |-> raw.a, err |-> "ok"]
    ELSE [iris |-> <<>>, err |-> "Error"]

(***************************************************************************)
(* The bucket tree.                                                        *)
(***************************************************************************)
EmptyBucket == [raw |-> NoVal, meta |-> NoVal]
rootBucket == <<>>

\* the names of buckets in the byte order of a bolt cursor
NameOrder == <<"a", "actors", "followers", "following", "h", "inbox",
               "liked", "likes", "m", "n", "o", "objects", "outbox", "replies",
               "shares", "x">>

itemBucketPath(iri) == IF iri = NilIRI THEN <<>> ELSE Tail(iri)

RECURSIVE descend(_, _, _, _, _)
descend(s, b, buckets, lvl, create) ==
    IF lvl = Len(buckets) THEN [b |-> b, lvl |-> lvl, s |-> s]
    ELSE LET name == buckets[lvl + 1]
             cb == Append(b, name)
         IN  IF name = "" THEN descend(s, b, buckets, lvl + 1, create)
             ELSE IF cb \in DOMAIN s THEN descend(s, cb, buckets, lvl + 1, create)
             ELSE IF create
                  THEN descend(s @@ (cb :> EmptyBucket), cb, buckets, lvl + 1, create)
                  ELSE [b |-> b, lvl |-> lvl, s |-> s]

\* the bucket of the item or collection with the given IRI
BucketOf(iri) == Clean(itemBucketPath(iri))

\* descendInBucket failing on every remainder, the hidden collections too
descendInBucket_Strict(s, path, create) ==
    LET r == descend(s, rootBucket, path, 0, create)
        rem == SubSeq(path, r.lvl + 1, Len(path))
    IN  [b |-> r.b, rem |-> rem, s |-> r.s,
         err |-> IF Len(rem) > 0 THEN "NotFound" ELSE "ok"]

\* descendInBucket(root, path, create) on the store s whose root bucket exists
descendInBucket(s, path, create) ==
    LET r == descend(s, rootBucket, path, 0, create)
        rem == SubSeq(path, r.lvl + 1, Len(path))
        hidden == Len(rem) = 1 /\ rem[1] \in HiddenCollections
    IN  [b |-> r.b, rem |-> rem, s |-> r.s,
         err |-> IF Len(rem) > 0 /\ ~hidden THEN "NotFound" ELSE "ok"]

(***************************************************************************)
(* Loading.  Every operator reads the store s and returns the items found  *)
(* with the kind of the error.  The code does not bound the nesting of the *)
(* calls of loadOneFromBucket that resolve stored bare IRIs and tags; fuel *)
(* bounds it here, and the error "overflow" stands for a load whose        *)
(* nesting goes beyond the fuel: with the inputs of the model, whose       *)
(* references that end are nested twice at most, for a load that never     *)
(* returns.                                                                *)
(***************************************************************************)
isStorageCollectionKey(lst) ==
    lst \in FedBOXCollections \/ lst \in OfActor \/ lst \in OfObject

\* ap.FilterIt(it, f) for the filter of a plain IRI, which has no predicate
FilterIt(it) == it

\* the keys and child buckets of bucket b in cursor order
BucketKeys(s, b) ==
    (IF s[b].meta # NoVal THEN <<"__meta_data">> ELSE <<>>)
        \o (IF s[b].raw # NoVal THEN <<"__raw">> ELSE <<>>)
        \o SelectSeq(NameOrder, LAMBDA n : Append(b, n) \in DOMAIN s)

RECURSIVE loadItem(_, _, _)
RECURSIVE loadFromBucket(_, _, _)

\* the greater of two numbers of open transactions
Max(m, n) == IF m >= n THEN m ELSE n

\* the value of a set of one value; a value bound in such a set is computed
\* once however often it is used
The(S) == CHOOSE x \in S : TRUE

\* r.loadOneFromBucket(f)
loadOneFromBucket(s, iri, fuel) ==
    The({IF r.err # "ok" THEN [it |-> NilItem, err |-> r.err, tx |-> r.tx]
         ELSE IF Len(r.col) = 0 THEN [it |-> NilItem, err |-> "NotFound", tx |-> r.tx]
         ELSE [it |-> r.col[1], err |-> "ok", tx |-> r.tx] :
            r \in {loadFromBucket(s, iri, fuel)}})

\* the loop of loadFilteredPropsForObject over the tags from the k-th on:
\* a tag that is a bare IRI is replaced by what loadOneFromBucket returns
\* for it, and the loop ends at the first tag that is not a bare IRI
RECURSIVE loadTags(_, _, _, _)
loadTags(s, it, k, fuel) ==
    IF k > Len(it.tag) THEN [it |-> it, err |-> "ok", tx |-> 0]
    ELSE IF IsNil(it.tag[k]) \/ ~IsIRI(it.tag[k]) THEN [it |-> it, err |-> "ok", tx |-> 0]
    ELSE IF fuel = 0 THEN [it |-> NilItem, err |-> "overflow", tx |-> 0]
    ELSE The({IF o.err = "overflow" THEN [it |-> NilItem, err |-> "overflow", tx |-> o.tx]
              ELSE The({[rest EXCEPT !.tx = Max(o.tx, rest.tx)] :
                          rest \in {loadTags(s, IF o.err = "ok"
                                                THEN [it EXCEPT !.tag[k] = o.it] ELSE it,
                                             k + 1, fuel)}}) :
                 o \in {loadOneFromBucket(s, GetLink(it.tag[k]), fuel - 1)}})

\* loadFilteredPropsForObject(r, f)(o), which loadItem applies to actors and
\* to objects
loadFilteredPropsForObject(s, it, fuel) ==
    IF IsObject(it) THEN loadTags(s, it, 1, fuel) ELSE [it |-> it, err |-> "ok", tx |-> 0]

\* r.loadItem(b, key, f) for key = objectKey
loadItem(s, b, fuel) ==
    LET props(x, otx) ==
            The({IF t.err = "overflow" THEN [t EXCEPT !.tx = Max(otx, t.tx)]
                 ELSE [it |-> FilterIt(t.it), err |-> "ok", tx |-> Max(otx, t.tx)] :
                    t \in {loadFilteredPropsForObject(s, x, fuel)}})
    IN  IF s[b].raw = NoVal THEN [it |-> NilItem, err |-> "ok", tx |-> 0]
        ELSE The({IF IsNil(it) THEN [it |-> NilItem, err |-> "NotFound", tx |-> 0]
                  ELSE IF IsCollection(it) THEN [it |-> it, err |-> "ok", tx |-> 0]
                  ELSE IF ~IsIRI(it) THEN props(it, 0)
                  ELSE IF fuel = 0 THEN [it |-> NilItem, err |-> "overflow", tx |-> 0]
                  ELSE The({IF o.err = "overflow" THEN o
                            ELSE IF IsNil(o.it)
                                 THEN [it |-> NilItem, err |-> "NotFound", tx |-> o.tx]
                            ELSE props(o.it, o.tx) :
                               o \in {loadOneFromBucket(s, it.iri, fuel - 1)}}) :
                     it \in {UnmarshalJSON(s[b].raw)}})

\* the loop of loadItemsElements: an element that is missing or fails to
\* load is skipped
RECURSIVE loadElements(_, _, _, _)
loadElements(s, iris, k, fuel) ==
    LET element(h, rest) ==
            The({IF l.err = "overflow" \/ rest.err = "overflow"
                 THEN [col |-> <<>>, err |-> "overflow", tx |-> Max(l.tx, rest.tx)]
                 ELSE IF l.err # "ok" \/ IsNil(l.it)
                      THEN [rest EXCEPT !.tx = Max(l.tx, rest.tx)]
                 ELSE [col |-> <<l.it>> \o rest.col, err |-> "ok",
                       tx |-> Max(l.tx, rest.tx)] :
                    l \in {loadItem(s, h.b, fuel)}})
    IN  IF k > Len(iris) THEN [col |-> <<>>, err |-> "ok", tx |-> 0]
        ELSE The({The({IF h.err # "ok" THEN rest ELSE element(h, rest) :
                         rest \in {loadElements(s, iris, k + 1, fuel)}}) :
                    h \in {descendInBucket(s, itemBucketPath(GetLink(iris[k])), FALSE)}})

\* r.loadItemsElements(f, iris...): the loop runs in a transaction that
\* r.d.View begins
loadItemsElements(s, iris, fuel) ==
    IF rootBucket \notin DOMAIN s THEN [col |-> <<>>, err |-> "Error", tx |-> 1]
    ELSE The({[e EXCEPT !.tx = 1 + e.tx] : e \in {loadElements(s, iris, 1, fuel)}})

\* the loop of iterateInBucket: a key that fails to load is skipped
RECURSIVE iterateKeys(_, _, _, _, _)
iterateKeys(s, b, keys, k, fuel) ==
    LET key == keys[k]
        ob == IF key \in {"__raw", "__meta_data"} THEN b ELSE Append(b, key)
        members(l, rest, tx) ==
            The({IF e.err = "overflow"
                 THEN [col |-> <<>>, err |-> "overflow", tx |-> Max(e.tx, tx)]
                 ELSE [col |-> e.col \o rest.col, err |-> "ok", tx |-> Max(e.tx, tx)] :
                    e \in {loadItemsElements(s, l.it.items, fuel)}})
        entry(l, rest, tx) ==
            IF l.err = "overflow" \/ rest.err = "overflow"
            THEN [col |-> <<>>, err |-> "overflow", tx |-> tx]
            ELSE IF l.err # "ok" \/ IsNil(l.it) THEN [rest EXCEPT !.tx = tx]
            ELSE IF IsCollection(l.it) THEN members(l, rest, tx)
            ELSE [col |-> <<l.it>> \o rest.col, err |-> "ok", tx |-> tx]
    IN  IF k > Len(keys) THEN [col |-> <<>>, err |-> "ok", tx |-> 0]
        ELSE The({The({entry(l, rest, Max(l.tx, rest.tx)) :
                         rest \in {iterateKeys(s, b, keys, k + 1, fuel)}}) :
                    l \in {loadItem(s, ob, fuel)}})

\* r.iterateInBucket(b, f)
iterateInBucket(s, b, fuel) == iterateKeys(s, b, BucketKeys(s, b), 1, fuel)

\* what loadFromBucket does inside the transaction r.d.View began
loadInView(s, iri, fuel) ==
    LET fullPath == itemBucketPath(iri)
        lst == Base(fullPath)
        members(l) ==
            The({[e EXCEPT !.tx = Max(l.tx, e.tx)] :
                    e \in {loadItemsElements(s, l.it.items, fuel)}})
        found(h) ==
            The({IF l.err # "ok" THEN [col |-> <<>>, err |-> l.err, tx |-> l.tx]
                 ELSE IF IsNil(l.it) THEN [col |-> <<>>, err |-> "NotFound", tx |-> l.tx]
                 ELSE IF IsCollection(l.it) THEN members(l)
                 ELSE [col |-> <<l.it>>, err |-> "ok", tx |-> l.tx] :
                    l \in {loadItem(s, h.b, fuel)}})
    IN  The({IF h.err # "ok" THEN [col |-> <<>>, err |-> h.err, tx |-> 0]
             ELSE IF isStorageCollectionKey(lst) THEN iterateInBucket(s, h.b, fuel)
             ELSE IF Len(h.rem) = 0 THEN found(h)
             ELSE [col |-> <<>>, err |-> "ok", tx |-> 0] :
                h \in {descendInBucket(s, fullPath, FALSE)}})

\* r.loadFromBucket(f) for the filter of IRI iri: the items, the error, and
\* the greatest number of transactions of the call open at the same time
loadFromBucket(s, iri, fuel) ==
    IF rootBucket \notin DOMAIN s THEN [col |-> <<>>, err |-> "Error", tx |-> 1]
    ELSE The({[r EXCEPT !.tx = 1 + r.tx] : r \in {loadInView(s, iri, fuel)}})

\* what r.Load(i) returns on the store s
LoadResult(s, i) ==
    LET r == loadFromBucket(s, i, MaxDepth)
    IN  [col |-> r.col, err |-> r.err]

\* the greatest number of read transactions r.Load(i) holds at the same time
LoadTx(s, i) == loadFromBucket(s, i, MaxDepth).tx

\* the IRIs of the items of a load result
Links(col) == [k \in 1..Len(col) |-> GetLink(col[k])]

(***************************************************************************)
(* Saving.                                                                 *)
(***************************************************************************)
\* a createCollectionInBucket that creates the bucket anew
createCollectionInBucket_Reset(s, b, iri) ==
    IF iri = NilIRI THEN [s |-> s, iri |-> NilIRI]
    ELSE LET cb == Append(b, Base(iri))
         IN  [s |-> (cb :> EmptyBucket) @@ s, iri |-> iri]

\* createCollectionInBucket(b, it) for the collection IRI iri
createCollectionInBucket(s, b, iri) ==
    IF iri = NilIRI THEN [s |-> s, iri |-> NilIRI]
    ELSE LET cb == Append(b, Base(iri))
         IN  [s |-> IF cb \in DOMAIN s THEN s ELSE s @@ (cb :> EmptyBucket),
              iri |-> iri]

\* the assignments of createCollectionsInBucket, in their order: the
\* property assigned and the collection whose IRI and bucket it receives
ActorCollections == << <<"inbox", "inbox">>, <<"outbox", "outbox">>,
                       <<"followers", "followers">>, <<"following", "liked">>,
                       <<"liked", "liked">> >>
ObjectCollections == << <<"replies", "replies">>, <<"likes", "likes">>,
                        <<"shares", "shares">> >>

RECURSIVE createCollections(_, _, _, _, _)
createCollections(s, b, it, props, k) ==
    IF k > Len(props) THEN [s |-> s, it |-> it]
    ELSE LET prop == props[k][1]
             c == createCollectionInBucket(s, b, CollectionIRI(it.id, props[k][2]))
         IN  IF it.col[prop] = NilIRI
             THEN createCollections(s, b, it, props, k + 1)
             ELSE createCollections(c.s, b, [it EXCEPT !.col[prop] = c.iri],
                                    props, k + 1)

createCollectionsInBucket(s, b, it) ==
    IF IsNil(it) \/ ~IsObject(it) THEN [s |-> s, it |-> it]
    ELSE LET a == IF GetType(it) \in ActorTypes
                  THEN createCollections(s, b, it, ActorCollections, 1)
                  ELSE [s |-> s, it |-> it]
         IN  createCollections(a.s, b, a.it, ObjectCollections, 1)

CreateBucketIfNotExists(s, b) == IF b \in DOMAIN s THEN s ELSE s @@ (b :> EmptyBucket)

\* save(r, it): the write transaction, rolled back when it fails
save(s, it) ==
    LET root == CreateBucketIfNotExists(s, rootBucket)
        d == descendInBucket(root, itemBucketPath(GetLink(it)), TRUE)
        c == IF Len(d.rem) = 0 THEN createCollectionsInBucket(d.s, d.b, it)
             ELSE [s |-> d.s, it |-> it]
    IN  IF d.err # "ok" THEN [s |-> s, it |-> it, err |-> "Error"]
        ELSE [s |-> [c.s EXCEPT ![d.b].raw = encodeFn(c.it)],
              it |-> c.it, err |-> "ok"]

(***************************************************************************)
(* Deleting.                                                               *)
(***************************************************************************)
\* b.DeleteBucket(key): the key is the whole IRI, and a child bucket is
\* named by one path component
DeleteBucket(s, b, key) ==
    IF Len(key) = 1 /\ Append(b, key[1]) \in DOMAIN s
    THEN [s |-> [p \in {q \in DOMAIN s :
                          ~(Len(q) > Len(b) /\ SubSeq(q, 1, Len(b) + 1) = Append(b, key[1]))}
                   |-> s[p]],
          err |-> "ok"]
    ELSE [s |-> s, err |-> "Error"]

deleteBucket(s, b, it) ==
    IF IsNil(it) THEN [s |-> s, err |-> "ok"]
    ELSE DeleteBucket(s, b, GetLink(it))

\* deleteItem(r, it): the write transaction, rolled back when it fails
deleteItem(s, it) ==
    LET d == descendInBucket(s, itemBucketPath(GetLink(it)), TRUE)
        r == deleteBucket(d.s, d.b, it)
    IN  IF rootBucket \notin DOMAIN s THEN [s |-> s, err |-> "Error"]
        ELSE IF d.err # "ok" THEN [s |-> s, err |-> "Error"]
        ELSE IF r.err # "ok" THEN [s |-> s, err |-> r.err]
        ELSE r

RECURSIVE deleteItems(_, _, _)
deleteItems(s, items, k) ==
    IF k > Len(items) THEN s
    ELSE deleteItems(deleteItem(s, IRIItem(GetLink(items[k]))).s, items, k + 1)

\* delete(r, it)
delete(s, it) ==
    IF IsCollection(it) THEN [s |-> deleteItems(s, it.items, 1), err |-> "ok"]
    ELSE deleteItem(s, IRIItem(GetLink(it)))

(***************************************************************************)
(* Collections.                                                            *)
(***************************************************************************)
\* r.IsLocalIRI(i): i.Contains(baseURL, false)
IsLocalIRI(i) == i # NilIRI /\ Host(i) = Host(baseURL)

\* the function RemoveFrom hands to onCollection
RECURSIVE removeFirst(_, _, _)
removeFirst(iris, link, k) ==
    IF k > Len(iris) THEN iris
    ELSE IF Equals(iris[k], link, FALSE)
         THEN SubSeq(iris, 1, k - 1) \o SubSeq(iris, k + 1, Len(iris))
         ELSE removeFirst(iris, link, k + 1)

\* RemoveFromFn comparing the scheme too
RemoveFromFn_Strict(iris, it) ==
    LET hit == {k \in 1..Len(iris) : Equals(iris[k], GetLink(it), TRUE)}
        k == CHOOSE j \in hit : \A i \in hit : j <= i
    IN  IF hit = {} THEN iris
        ELSE SubSeq(iris, 1, k - 1) \o SubSeq(iris, k + 1, Len(iris))

\* RemoveFromFn removing the head of the list when nothing matches
RemoveFromFn_Head(iris, it) ==
    IF Contains(iris, GetLink(it)) THEN removeFirst(iris, GetLink(it), 1)
    ELSE IF Len(iris) = 0 THEN iris ELSE Tail(iris)

RemoveFromFn(iris, it) == removeFirst(iris, GetLink(it), 1)

\* AddToFn without the membership test
AddToFn_Append(iris, it) == Append(iris, GetLink(it))

\* AddToFn inserting at the head
AddToFn_Prepend(iris, it) ==
    IF Contains(iris, GetLink(it)) THEN iris ELSE <<GetLink(it)>> \o iris

\* AddToFn forgetting the decoded list
AddToFn_Replace(iris, it) ==
    IF Contains(iris, GetLink(it)) THEN iris ELSE <<GetLink(it)>>

\* the function AddTo hands to onCollection
AddToFn(iris, it) ==
    IF Contains(iris, GetLink(it)) THEN iris ELSE Append(iris, GetLink(it))

\* the checks of onCollection that come before the database is opened
onCollectionArgs(col, it) ==
    IF IsNil(it) \/ col = NilIRI \/ GetLink(it) = NilIRI \/ ~IsLocalIRI(col)
    THEN "Error" ELSE "ok"

\* the write transaction of onCollection; fn, the function applied to the
\* decoded list, is the one of AddTo or the one of RemoveFrom
onCollectionTx(s, col, it, fn) ==
    LET d == descendInBucket(s, itemBucketPath(col), TRUE)
        new(iris) == IF fn = "AddTo" THEN AddToFn(iris, it)
                     ELSE RemoveFromFn(iris, it)
        raw == d.s[d.b].raw
        dec == IF raw = NoVal THEN [iris |-> <<>>, err |-> "ok"] ELSE decodeIRIs(raw)
    IN  IF rootBucket \notin DOMAIN s THEN [s |-> s, err |-> "Error"]
        ELSE IF d.err # "ok" THEN [s |-> s, err |-> "Error"]
        ELSE IF dec.err # "ok" THEN [s |-> s, err |-> "Error"]
        ELSE [s |-> [d.s EXCEPT ![d.b].raw = encodeIRIs(new(dec.iris))],
              err |-> "ok"]

\* allStorageCollections.Split(col): the owner and the collection name
SplitOwner(col) == SubSeq(col, 1, Len(col) - 1)
SplitName(col) ==
    IF Len(col) > 2 /\ col[Len(col)] \in AllColl \cup FedBOXCollections
    THEN col[Len(col)] ELSE ""

\* t.AddTo(i): sets collection t on an object that lacks it
CollectionAddTo(t, i) ==
    IF IsNil(i) \/ ~IsObject(i) THEN [it |-> i, ok |-> FALSE]
    ELSE IF i.col[t] # NilIRI \/ (t \in OfActor /\ i.type \notin ActorTypes)
         THEN [it |-> i, ok |-> FALSE]
    ELSE [it |-> [i EXCEPT !.col[t] = CollectionIRI(i.id, t)], ok |-> TRUE]

\* the stored members of collection col, as onCollection decodes them
Members(s, col) ==
    LET b == Clean(itemBucketPath(col))
    IN  IF b \in DOMAIN s /\ s[b].raw # NoVal THEN decodeIRIs(s[b].raw).iris
        ELSE <<>>

(***************************************************************************)
(* Metadata and passwords.  A password is the pair of its first 72 bytes   *)
(* and of the bytes after them: bcrypt keys its hash with the first 72     *)
(* bytes only.                                                             *)
(***************************************************************************)
Password(head, tail) == [head |-> head, tail |-> tail]
NoPw == Password("", "")

\* bcrypt.GenerateFromPassword(pw, -1)
GenerateFromPassword(pw) == <<"bcrypt", pw.head>>

\* bcrypt.CompareHashAndPassword(hash, pw) = nil
CompareHashAndPassword(hash, pw) == hash = <<"bcrypt", pw.head>>

\* encodeFn(storage.Metadata{Pw: pw, PrivateKey: key})
encodeMetadata(pw, key) == [json |-> "metadata", pw |-> pw, key |-> key]

\* passwordSet keeping the metadata that is already stored
passwordSet_Keep(s, iri, pw) ==
    LET root == CreateBucketIfNotExists(s, rootBucket)
        d == descendInBucket(root, itemBucketPath(iri), TRUE)
    IN  IF d.err # "ok" THEN [s |-> s, err |-> "Error"]
        ELSE IF d.s[d.b].meta # NoVal THEN [s |-> d.s, err |-> "ok"]
        ELSE [s |-> [d.s EXCEPT ![d.b].meta =
                         encodeMetadata(GenerateFromPassword(pw), <<>>)],
              err |-> "ok"]

\* the write transaction of PasswordSet
passwordSet(s, iri, pw) ==
    LET root == CreateBucketIfNotExists(s, rootBucket)
        d == descendInBucket(root, itemBucketPath(iri), TRUE)
    IN  IF d.err # "ok" THEN [s |-> s, err |-> "Error"]
        ELSE [s |-> [d.s EXCEPT ![d.b].meta =
                         encodeMetadata(GenerateFromPassword(pw), <<>>)],
              err |-> "ok"]

\* the read transaction of PasswordCheck
passwordCheck(s, iri, pw) ==
    LET d == descendInBucket(s, itemBucketPath(iri), FALSE)
        entry == s[d.b].meta
    IN  IF rootBucket \notin DOMAIN s THEN "Error"
        ELSE IF d.err # "ok" THEN "Error"
        ELSE IF entry.json # "metadata" THEN "Error"
        ELSE IF ~CompareHashAndPassword(entry.pw, pw) THEN "Unauthorized"
        ELSE "ok"

\* the write transaction of SaveMetadata: the metadata given replaces the
\* metadata stored
saveMetadata(s, m, iri) ==
    LET root == CreateBucketIfNotExists(s, rootBucket)
        h == descendInBucket(root, itemBucketPath(iri), TRUE)
    IN  IF h.err # "ok" THEN [s |-> s, err |-> "Error"]
        ELSE [s |-> [h.s EXCEPT ![h.b].meta = encodeMetadata(m.pw, m.key)],
              err |-> "ok"]

\* the read transaction of LoadMetadata: an entry that is missing does not
\* decode
loadMetadata(s, iri) ==
    LET h == descendInBucket(s, itemBucketPath(iri), FALSE)
        entry == s[h.b].meta
        none == [pw |-> <<>>, key |-> <<>>]
    IN  IF rootBucket \notin DOMAIN s THEN [m |-> none, err |-> "Error"]
        ELSE IF h.err # "ok" THEN [m |-> none, err |-> "Error"]
        ELSE IF entry.json # "metadata" THEN [m |-> none, err |-> "Error"]
        ELSE [m |-> [pw |-> entry.pw, key |-> entry.key], err |-> "ok"]

\* r.LoadKey(iri): a metadata without a private key fails to decode as PEM
loadKey(s, iri) ==
    LET r == loadMetadata(s, iri)
    IN  IF r.err # "ok" THEN [key |-> <<>>, err |-> r.err]
        ELSE IF r.m.key = <<>> THEN [key |-> <<>>, err |-> "Error"]
        ELSE [key |-> r.m.key, err |-> "ok"]

(***************************************************************************)
(* The state.                                                              *)
(***************************************************************************)
VARIABLES
    db,        \* the committed content of the bolt file: bucket -> keys
    d,         \* r.d, the database handle: "nil", "open" or "closed"
    last,      \* the last call that returned, its arguments and its outcome
    firstAdd,  \* per collection, the members in the order of their first add
    deleted,   \* the buckets of the stored items Delete was called for
    d0,        \* the value r.d had when the concurrent workers started
    db0,       \* the content of the file when the concurrent workers started
    wcol,      \* per worker, the collection of its AddTo
    flock,     \* the worker whose handle holds the lock of the file, or 0
    pc,        \* per worker, where it stands in its AddTo, or how it ended
    seen,      \* per worker, the state of the handle it read from r.d
    owner,     \* per worker, the item addCollectionOnObject loaded and changed
    conf,      \* f.conf, the options of the server
    setters,   \* the setters Run hands to w.HttpServer, in their order
    sockType,  \* the kind of listener Run logs
    stopFn,    \* f.stopFn: "empty" or "srvStop"
    srv,       \* the HTTP server: "idle", "accepting", "failed" or "stopped"
    runPc,     \* where Run stands: "new", "exec", "serving", "returned", "panic"
    sig,       \* the last signal handled
    nsig,      \* the number of signals handled
    events,    \* the shutdown steps taken, in their order
    caches,    \* f.caches, the request cache: "empty" or "filled"
    storage,   \* f.storage: "open", "closed", or "plain" when it has no Close
    sockPath,  \* the path w.OnSocket was given, or "" when none was
    removed,   \* the paths os.RemoveAll was called with, in their order
    clock,     \* the time that passed since Run was called
    inflight,  \* a request is being served
    shut,      \* srvStop(ctx): when it was called, when it returned, and
               \* whether it returned with a request still being served
    rd,        \* the handle r.d holds: 0 for nil, -1 for the closed handle of
               \* an earlier call, or the worker whose Open assigned it
    hw         \* per worker, its call: the operation, the state of the handle
               \* it opened, the transactions it ran, and what it returned

wvars == <<d0, db0, wcol, flock, pc, seen, owner>>
rvars == <<conf, setters, sockType, stopFn, srv, runPc, sig, nsig, events, caches,
           storage, sockPath, removed, clock, inflight, shut, rd, hw>>
svars == <<db, d, last, firstAdd, deleted>>
vars == <<db, d, last, firstAdd, deleted, d0, db0, wcol, flock, pc, seen, owner,
          conf, setters, sockType, stopFn, srv, runPc, sig, nsig, events, caches,
          storage, sockPath, removed, clock, inflight, shut, rd, hw>>

(***************************************************************************)
(* The inputs of the calls.                                                *)
(***************************************************************************)
actorA == <<"https", "h", "actors", "a">>
objectN == <<"https", "h", "objects", "n">>
objectNhttp == <<"http", "h", "objects", "n">>
objectM == <<"https", "h", "objects", "m">>
objectO == <<"https", "h", "objects", "o">>
\* the IRI of an object of another host
objectX == <<"https", "x", "objects", "n">>
inboxA == CollectionIRI(actorA, "inbox")
likesN == CollectionIRI(objectN, "likes")

ActorColl(id) == [t \in AllColl |-> IF t \in OfActor THEN CollectionIRI(id, t) ELSE NilIRI]
ObjectColl(id) == [t \in AllColl |-> IF t \in OfObject THEN CollectionIRI(id, t) ELSE NilIRI]

Tombstone(id, formerType) ==
    [Object(id, "Tombstone", NoColl) EXCEPT !.formerType = formerType, !.deleted = TRUE]

\* the items saved: actors and objects with and without their collections
Items == {Object(actorA, "Person", ActorColl(actorA)),
          Object(actorA, "Person", NoColl),
          Object(objectN, "Note", NoColl),
          Object(objectN, "Note", ObjectColl(objectN)),
          Object(objectNhttp, "Note", NoColl),
          Object(objectX, "Note", NoColl),
          Tombstone(objectN, "Note")}
ItemIRIs == {actorA, objectN, objectNhttp}

\* the collections and the members added to them and removed from them
Collections == {inboxA, likesN}
MemberIRIs == {objectN, objectNhttp, objectM}
Memberships == ({inboxA} \X MemberIRIs) \cup {<<likesN, objectM>>}
MemberItems == {Object(objectN, "Note", NoColl), Object(objectM, "Note", NoColl)}

\* an object whose tags are the given IRIs
Tagged(it, iris) == [it EXCEPT !.tag = [k \in 1..Len(iris) |-> IRIItem(iris[k])]]

\* an object whose tags are the given items
WithTags(it, tags) == [it EXCEPT !.tag = tags]

\* the items saved that refer to items: objects with a tag, and a bare IRI
RefItems == {Object(objectN, "Note", NoColl),
             Tagged(Object(objectN, "Note", NoColl), <<objectN>>),
             Tagged(Object(objectN, "Note", NoColl), <<objectM>>),
             Tagged(Object(objectN, "Note", NoColl), <<objectM, objectN>>),
             Object(objectM, "Note", NoColl),
             Tagged(Object(objectM, "Note", NoColl), <<objectN>>),
             Tagged(Object(objectM, "Note", NoColl), <<objectO>>),
             Object(objectO, "Note", NoColl),
             WithTags(Object(objectN, "Note", NoColl),
                      <<Object(objectM, "Note", NoColl), IRIItem(objectO)>>),
             IRIItem(objectN)}
RefIRIs == {objectN, objectM}

actorAhttp == <<"http", "h", "actors", "a">>
PasswordIRIs == {actorA, actorAhttp, objectN}
Passwords == {Password("p", ""), Password("q", ""),
              Password("l", "x"), Password("l", "y")}

(***************************************************************************)
(* The calls of one caller, each from its call to its return.              *)
(***************************************************************************)
NoCall == [op |-> "none", iri |-> NilIRI, it |-> NilItem, pw |-> NoPw,
           err |-> "none", ret |-> <<>>, rep |-> 1, prevErr |-> "none",
           seq3 |-> FALSE]

\* the record of a call: rep counts up to two consecutive identical calls,
\* prevErr is the outcome of the first of them, and seq3 marks a RemoveFrom
\* that follows two successful AddTo of the same item to the same collection
Call(op, iri, it, pw, err, ret) ==
    LET same == last.op = op /\ last.iri = iri /\ last.it = it /\ last.pw = pw
    IN  [op |-> op, iri |-> iri, it |-> it, pw |-> pw, err |-> err, ret |-> ret,
         rep |-> IF same THEN 2 ELSE 1,
         prevErr |-> IF same THEN last.err ELSE "none",
         seq3 |-> /\ op = "RemoveFrom" /\ err = "ok"
                  /\ last.op = "AddTo" /\ last.iri = iri /\ last.it = it
                  /\ last.rep = 2 /\ last.err = "ok" /\ last.prevErr = "ok"]

Stored(s, iri) ==
    LET b == Clean(itemBucketPath(iri))
    IN  b \in DOMAIN s /\ s[b].raw.json = "object"

\* r.Save(it)
Save(x) ==
    LET r == save(db, x)
    IN  /\ db' = r.s
        /\ d' = "closed"
        /\ last' = Call("Save", GetLink(x), x, NoPw, r.err, <<r.it>>)
        /\ UNCHANGED <<firstAdd, deleted>>

\* r.Load(i)
Load(i) ==
    LET r == LoadResult(db, i)
    IN  /\ d' = "closed"
        /\ last' = Call("Load", i, NilItem, NoPw, r.err, r.col)
        /\ UNCHANGED <<db, firstAdd, deleted>>

\* r.Delete(it)
Delete(it) ==
    LET r == delete(db, it)
    IN  /\ db' = r.s
        /\ d' = "closed"
        /\ last' = Call("Delete", GetLink(it), it, NoPw, r.err, <<>>)
        /\ deleted' = IF Stored(db, GetLink(it))
                      THEN deleted \cup {Clean(itemBucketPath(GetLink(it)))}
                      ELSE deleted
        /\ UNCHANGED firstAdd

\* the members of firstAdd[col] after a successful AddTo of it
FirstAdded(col, it) ==
    IF Contains(firstAdd[col], GetLink(it)) THEN firstAdd[col]
    ELSE Append(firstAdd[col], GetLink(it))

\* r.AddTo(col, it) by a single caller: addCollectionOnObject reads the
\* owner through r.d before onCollection opens the database, which panics
\* on the nil handle of a new repository and fails on a closed handle
AddTo(col, it) ==
    LET r == onCollectionTx(db, col, it, "AddTo")
    IN  IF ValidCollection(SplitName(col)) /\ d = "nil"
        THEN /\ last' = Call("AddTo", col, it, NoPw, "panic", <<>>)
             /\ UNCHANGED <<db, d, firstAdd, deleted>>
        ELSE IF onCollectionArgs(col, it) # "ok"
        THEN /\ last' = Call("AddTo", col, it, NoPw, "Error", <<>>)
             /\ UNCHANGED <<db, d, firstAdd, deleted>>
        ELSE /\ db' = r.s
             /\ d' = "closed"
             /\ last' = Call("AddTo", col, it, NoPw, r.err, <<>>)
             /\ firstAdd' = IF r.err = "ok" /\ col \in DOMAIN firstAdd
                            THEN [firstAdd EXCEPT ![col] = FirstAdded(col, it)]
                            ELSE firstAdd
             /\ UNCHANGED deleted

\* r.RemoveFrom(col, it)
RemoveFrom(col, it) ==
    LET r == onCollectionTx(db, col, it, "RemoveFrom")
    IN  IF onCollectionArgs(col, it) # "ok"
        THEN /\ last' = Call("RemoveFrom", col, it, NoPw, "Error", <<>>)
             /\ UNCHANGED <<db, d, firstAdd, deleted>>
        ELSE /\ db' = r.s
             /\ d' = "closed"
             /\ last' = Call("RemoveFrom", col, it, NoPw, r.err, <<>>)
             /\ UNCHANGED <<firstAdd, deleted>>

\* r.PasswordSet(it, pw)
PasswordSet(i, pw) ==
    LET r == passwordSet(db, i, pw)
    IN  /\ db' = r.s
        /\ d' = "closed"
        /\ last' = Call("PasswordSet", i, NilItem, pw, r.err, <<>>)
        /\ UNCHANGED <<firstAdd, deleted>>

\* r.PasswordCheck(it, pw)
PasswordCheck(i, pw) ==
    /\ d' = "closed"
    /\ last' = Call("PasswordCheck", i, NilItem, pw, passwordCheck(db, i, pw), <<>>)
    /\ UNCHANGED <<db, firstAdd, deleted>>

Workers == 1..NWorkers

\* srvStop was not called
NoShutdown == [req |-> -1, ret |-> -1, forced |-> FALSE]

\* the variables of the clock
tvars == <<clock, inflight, shut>>

\* the variables of the calls that open and close the database
hvars == <<rd, hw>>

\* the server of a program that only uses the repository
NoServer ==
    /\ conf = [Listen |-> "", Secure |-> FALSE, CertPath |-> "", KeyPath |-> ""]
    /\ setters = <<>>
    /\ sockType = ""
    /\ stopFn = "empty"
    /\ srv = "idle"
    /\ runPc = "new"
    /\ sig = "none"
    /\ nsig = 0
    /\ events = <<>>
    /\ caches = "empty"
    /\ storage = "open"
    /\ sockPath = ""
    /\ removed = <<>>
    /\ clock = 0
    /\ inflight = FALSE
    /\ shut = NoShutdown
    /\ rd = 0
    /\ hw = << >>

Init ==
    /\ db = << >>
    /\ d = "nil"
    /\ last = NoCall
    /\ firstAdd = [c \in Collections |-> <<>>]
    /\ deleted = {}
    /\ d0 = "nil"
    /\ db0 = << >>
    /\ wcol = [w \in Workers |-> inboxA]
    /\ flock = 0
    /\ pc = [w \in Workers |-> "done"]
    /\ seen = [w \in Workers |-> "nil"]
    /\ owner = [w \in Workers |-> NilItem]
    /\ NoServer

SaveItem == (\E x \in Items : Save(x)) /\ UNCHANGED <<wvars, rvars>>
LoadItem == (\E i \in ItemIRIs : Load(i)) /\ UNCHANGED <<wvars, rvars>>
DeleteItem == (\E i \in ItemIRIs : Delete(IRIItem(i))) /\ UNCHANGED <<wvars, rvars>>

\* the calls on items
Next == SaveItem \/ LoadItem \/ DeleteItem

Spec == Init /\ [][Next]_vars

SaveMember == (\E x \in MemberItems : Save(x)) /\ UNCHANGED <<wvars, rvars>>
AddMember == (\E m \in Memberships : AddTo(m[1], IRIItem(m[2]))) /\ UNCHANGED <<wvars, rvars>>
RemoveMember ==
    (\E m \in Memberships : RemoveFrom(m[1], IRIItem(m[2]))) /\ UNCHANGED <<wvars, rvars>>
LoadCollection == (\E c \in Collections : Load(c)) /\ UNCHANGED <<wvars, rvars>>

\* the calls on collections
NextCol == SaveMember \/ AddMember \/ RemoveMember \/ LoadCollection

SpecCol == Init /\ [][NextCol]_vars

SetPassword ==
    (\E i \in PasswordIRIs, pw \in Passwords : PasswordSet(i, pw)) /\ UNCHANGED <<wvars, rvars>>
CheckPassword ==
    (\E i \in PasswordIRIs, pw \in Passwords : PasswordCheck(i, pw)) /\ UNCHANGED <<wvars, rvars>>

\* the calls on passwords
NextPw == SetPassword \/ CheckPassword

SpecPw == Init /\ [][NextPw]_vars

\* the calls on items that refer to items; a Load whose recursion does not
\* end overflows the stack, which ends the process
Alive == last.err # "overflow"
SaveRef == Alive /\ (\E x \in RefItems : Save(x)) /\ UNCHANGED <<wvars, rvars>>
LoadRef == Alive /\ (\E i \in RefIRIs : Load(i)) /\ UNCHANGED <<wvars, rvars>>

NextRef == SaveRef \/ LoadRef

SpecRef == Init /\ [][NextRef]_vars


(***************************************************************************)
(* Concurrent workers on one repository, each calling AddTo(inboxA, x_w)   *)
(* for its own stored item x_w.  bolt.Open returns when no other handle    *)
(* holds the lock of the file, and only then is r.d assigned; r.d is read  *)
(* without synchronisation by addCollectionOnObject, which may observe the *)
(* value the workers started with or the handle of another worker.         *)
(***************************************************************************)
ItemNames == <<"n", "m", "o">>
WorkerItem(w) == Object(<<"https", "h", "objects", ItemNames[w]>>, "Note", NoColl)

RECURSIVE saveAll(_, _, _)
saveAll(s, items, k) ==
    IF k > Len(items) THEN s ELSE saveAll(save(s, items[k]).s, items, k + 1)

\* the store after the items of the workers and, unless the inbox has no
\* owner, the owner were saved
InitCon ==
    /\ \E a \in {<<Object(actorA, "Person", ActorColl(actorA))>>,
                 <<Object(actorA, "Person", NoColl)>>, << >>} :
          db = saveAll(<< >>, a \o [w \in Workers |-> WorkerItem(w)], 1)
    /\ d0 \in {"nil", "closed"}
    /\ d = d0
    /\ db0 = db
    /\ wcol = [w \in Workers |-> inboxA]
    /\ last = NoCall
    /\ firstAdd = [c \in Collections |-> <<>>]
    /\ deleted = {}
    /\ flock = 0
    /\ pc = [w \in Workers |-> "start"]
    /\ seen = [w \in Workers |-> "nil"]
    /\ owner = [w \in Workers |-> NilItem]
    /\ NoServer

Running == \A w \in Workers : pc[w] # "panic"

\* the values an unsynchronised read of r.d may yield: the one the workers
\* started with or the one assigned last
Observed == {d0, d}

\* addCollectionOnObject(r, col): the read of r.d by r.loadOneFromBucket
ReadHandle(w) ==
    /\ Running /\ pc[w] = "start"
    /\ \E h \in Observed : seen' = [seen EXCEPT ![w] = h]
    /\ pc' = [pc EXCEPT ![w] = "view"]
    /\ UNCHANGED <<db, d, last, firstAdd, deleted, d0, db0, wcol, flock, owner>> /\ UNCHANGED rvars

\* addCollectionOnObject(r, col): r.d.View on the handle read, which
\* panics when nil and fails when closed, and t.AddTo on the item loaded
LoadOwner(w) ==
    LET o == loadOneFromBucket(db, SplitOwner(wcol[w]), MaxDepth)
        a == CollectionAddTo(SplitName(wcol[w]), o.it)
    IN  /\ Running /\ pc[w] = "view"
        /\ IF seen[w] = "nil"
           THEN pc' = [pc EXCEPT ![w] = "panic"] /\ UNCHANGED owner
           ELSE IF seen[w] = "open" /\ a.ok
           THEN /\ pc' = [pc EXCEPT ![w] = "saveOpen"]
                /\ owner' = [owner EXCEPT ![w] = a.it]
           ELSE pc' = [pc EXCEPT ![w] = "colOpen"] /\ UNCHANGED owner
        /\ UNCHANGED <<db, d, last, firstAdd, deleted, d0, db0, wcol, flock, seen>> /\ UNCHANGED rvars

\* r.Open() of the worker's Save or onCollection, which onCollection reaches
\* when its arguments pass its checks
Open(w) ==
    /\ Running /\ pc[w] \in {"saveOpen", "colOpen"}
    /\ pc[w] = "colOpen" => onCollectionArgs(wcol[w], WorkerItem(w)) = "ok"
    /\ flock = 0
    /\ flock' = w
    /\ d' = "open"
    /\ pc' = [pc EXCEPT ![w] = IF pc[w] = "saveOpen" THEN "saveTx" ELSE "colTx"]
    /\ UNCHANGED <<db, last, firstAdd, deleted, d0, db0, wcol, seen, owner>> /\ UNCHANGED rvars

\* the write transaction of r.Save(i) in addCollectionOnObject
SaveOwner(w) ==
    /\ Running /\ pc[w] = "saveTx"
    /\ db' = save(db, owner[w]).s
    /\ pc' = [pc EXCEPT ![w] = "saveClose"]
    /\ UNCHANGED <<d, last, firstAdd, deleted, d0, db0, wcol, flock, seen, owner>> /\ UNCHANGED rvars

\* the write transaction of onCollection
Update(w) ==
    /\ Running /\ pc[w] = "colTx"
    /\ db' = onCollectionTx(db, wcol[w], WorkerItem(w), "AddTo").s
    /\ pc' = [pc EXCEPT ![w] = "colClose"]
    /\ UNCHANGED <<d, last, firstAdd, deleted, d0, db0, wcol, flock, seen, owner>> /\ UNCHANGED rvars

\* the deferred r.Close(): the handle other workers read is closed too
Close(w) ==
    /\ Running /\ pc[w] \in {"saveClose", "colClose"}
    /\ flock' = 0
    /\ d' = "closed"
    /\ seen' = [v \in Workers |-> IF seen[v] = "open" THEN "closed" ELSE seen[v]]
    /\ pc' = [pc EXCEPT ![w] = IF pc[w] = "saveClose" THEN "colOpen" ELSE "done"]
    /\ UNCHANGED <<db, last, firstAdd, deleted, d0, db0, wcol, owner>> /\ UNCHANGED rvars

NextCon ==
    \E w \in Workers :
        ReadHandle(w) \/ LoadOwner(w) \/ Open(w) \/ SaveOwner(w) \/ Update(w) \/ Close(w)

SpecCon == InitCon /\ [][NextCon]_vars

(***************************************************************************)
(* Concurrent workers whose AddTo calls differ: the first adds to the      *)
(* inbox of the stored actor, the others add to the likes of a stored      *)
(* object of another host, which onCollection refuses.                     *)
(***************************************************************************)
likesX == CollectionIRI(objectX, "likes")

\* onCollection returns the error of one of its checks before it opens the
\* database; addCollectionOnObject has run by then
Reject(w) ==
    /\ Running /\ pc[w] = "colOpen"
    /\ onCollectionArgs(wcol[w], WorkerItem(w)) # "ok"
    /\ pc' = [pc EXCEPT ![w] = "failed"]
    /\ UNCHANGED <<db, d, last, firstAdd, deleted, d0, db0, wcol, flock, seen, owner>>
    /\ UNCHANGED rvars

\* the store after the actor, the object of the other host, each with or
\* without its collections, and the items of the workers were saved
InitFail ==
    /\ \E a \in {Object(actorA, "Person", ActorColl(actorA)),
                 Object(actorA, "Person", NoColl)},
          x \in {Object(objectX, "Note", ObjectColl(objectX)),
                 Object(objectX, "Note", NoColl)} :
          db = saveAll(<< >>, <<a, x>> \o [w \in Workers |-> WorkerItem(w)], 1)
    /\ d0 \in {"nil", "closed"}
    /\ d = d0
    /\ db0 = db
    /\ wcol = [w \in Workers |-> IF w = 1 THEN inboxA ELSE likesX]
    /\ last = NoCall
    /\ firstAdd = [c \in Collections |-> <<>>]
    /\ deleted = {}
    /\ flock = 0
    /\ pc = [w \in Workers |-> "start"]
    /\ seen = [w \in Workers |-> "nil"]
    /\ owner = [w \in Workers |-> NilItem]
    /\ NoServer

NextFail ==
    \E w \in Workers :
        \/ ReadHandle(w) \/ LoadOwner(w) \/ Open(w) \/ SaveOwner(w) \/ Update(w)
        \/ Close(w) \/ Reject(w)

SpecFail == InitFail /\ [][NextFail]_vars

(***************************************************************************)
(* The server (FedBOX.Run, FedBOX.Stop, FedBOX.reload).  Run chooses the   *)
(* setters of the HTTP server from the options, starts the server in a     *)
(* goroutine of Exec and waits on the exit channel; the handlers of the    *)
(* signals run in another goroutine of Exec.  srvRun returns when the      *)
(* server fails to start or has been shut down.                            *)
(***************************************************************************)
\* the values of Listen: systemd activation, a socket in a directory that
\* exists, a socket in a directory that does not, and a TCP address
Listens == {"systemd", "/run/fedbox.sock", "/gone/fedbox.sock", "localhost:4000"}

\* filepath.IsAbs
IsAbs(path) == path \in {"/run/fedbox.sock", "/gone/fedbox.sock"}

\* filepath.Dir
Dir(path) == CASE path = "/run/fedbox.sock" -> "/run"
               [] path = "/gone/fedbox.sock" -> "/gone"
               [] OTHER -> "."

\* os.Stat(dir) returns no error
Stat(dir) == dir \in {"/run", "."}

\* config.Options, as far as Run reads it
Options == [Listen : Listens, Secure : BOOLEAN,
            CertPath : {"", "cert.pem"}, KeyPath : {"", "key.pem"}]

\* len(f.conf.CertPath)+len(f.conf.KeyPath) > 0
HasCertOrKey(c) == c.CertPath # "" \/ c.KeyPath # ""

\* the TLS setter Run appends
tlsSetters(c) ==
    IF c.Secure /\ HasCertOrKey(c) THEN <<"WithTLSCert">> ELSE <<>>

\* f.conf.Secure after Run looked at the certificate and the key
secureAfter(c) == IF c.Secure /\ ~HasCertOrKey(c) THEN FALSE ELSE c.Secure

\* the listener setter Run appends
listenSetters(c) ==
    IF c.Listen = "systemd" THEN <<"OnSystemd">>
    ELSE IF IsAbs(c.Listen)
         THEN IF Stat(Dir(c.Listen)) THEN <<"OnSocket">> ELSE <<>>
         ELSE <<"OnTCP">>

\* sockType at the end of the selection
sockTypeOf(c) ==
    IF c.Listen = "systemd" THEN "Systemd"
    ELSE IF IsAbs(c.Listen)
         THEN IF Stat(Dir(c.Listen)) THEN "socket" ELSE ""
         ELSE "TCP"

\* the deferred function of Run, registered when a socket was selected
deferred(st) == IF st = "socket" THEN <<"RemoveAll">> ELSE <<>>

\* the path w.OnSocket is given, "" when no socket is selected
socketPath(c) == IF sockTypeOf(c) = "socket" THEN c.Listen ELSE ""

\* the path the deferred function of Run removes: it reads f.conf.Listen
\* when it runs
RemoveAll(st, c) == IF st = "socket" THEN <<c.Listen>> ELSE <<>>

\* the shutdown step s was taken
Took(s) == \E k \in 1..Len(events) : events[k] = s

Signals == {"SIGHUP", "SIGINT", "SIGTERM", "SIGQUIT"}

\* the handlers with every signal sending on the exit channel
SignalHandlers_Exit(s) == "exit"

\* w.SignalHandlers: what the handler of the signal does
SignalHandlers(s) == IF s = "SIGHUP" THEN "reload" ELSE "exit"

\* New, for every value of the options and of the storage
InitRun ==
    /\ db = << >>
    /\ d = "nil"
    /\ last = NoCall
    /\ firstAdd = [c \in Collections |-> <<>>]
    /\ deleted = {}
    /\ d0 = "nil"
    /\ db0 = << >>
    /\ wcol = [w \in Workers |-> inboxA]
    /\ flock = 0
    /\ pc = [w \in Workers |-> "done"]
    /\ seen = [w \in Workers |-> "nil"]
    /\ owner = [w \in Workers |-> NilItem]
    /\ conf \in Options
    /\ setters = <<>>
    /\ sockType = ""
    /\ stopFn = "empty"
    /\ srv = "idle"
    /\ runPc = "new"
    /\ sig = "none"
    /\ nsig = 0
    /\ events = <<>>
    /\ caches \in {"empty", "filled"}
    /\ storage \in {"open", "plain"}
    /\ sockPath = ""
    /\ removed = <<>>
    /\ clock = 0
    /\ inflight = FALSE
    /\ shut = NoShutdown
    /\ rd = 0
    /\ hw = << >>

\* f.Run(c) up to the call of Exec
Run ==
    /\ runPc = "new"
    /\ conf' = [conf EXCEPT !.Secure = secureAfter(conf)]
    /\ setters' = <<"Handler">> \o tlsSetters(conf) \o listenSetters(conf)
    /\ sockType' = sockTypeOf(conf)
    /\ stopFn' = "srvStop"
    /\ runPc' = "exec"
    /\ sockPath' = socketPath(conf)
    /\ UNCHANGED <<srv, sig, nsig, events, caches, storage, svars, wvars, removed, tvars, hvars>>

\* srvRun() in the goroutine of Exec: the server accepts, or fails to start
Serve ==
    /\ runPc = "exec"
    /\ srv = "idle"
    /\ \E s \in {"accepting", "failed"} : srv' = s
    /\ runPc' = "serving"
    /\ UNCHANGED <<conf, setters, sockType, stopFn, sig, nsig, events, caches,
                   storage, svars, wvars, sockPath, removed, tvars, hvars>>

\* a request served through the cache
Request ==
    /\ runPc = "serving"
    /\ srv = "accepting"
    /\ caches' = "filled"
    /\ UNCHANGED <<conf, setters, sockType, stopFn, srv, runPc, sig, nsig, events,
                   storage, svars, wvars, sockPath, removed, tvars, hvars>>

\* the handler of SIGHUP: f.reload() loads the options from the environment
\* and drops the request cache
Sighup ==
    /\ runPc = "serving"
    /\ nsig < MaxSignals
    /\ \E s \in Signals :
          /\ SignalHandlers(s) = "reload"
          /\ sig' = s
    /\ \E l \in Listens : conf' = [conf EXCEPT !.Listen = l]
    /\ caches' = "empty"
    /\ nsig' = nsig + 1
    /\ UNCHANGED <<setters, sockType, stopFn, srv, runPc, events, storage, svars,
                   wvars, sockPath, removed, tvars, hvars>>

\* the handler of SIGINT, SIGTERM or SIGQUIT sends on the exit channel: Exec
\* returns, and Run returns after its deferred functions
Interrupt ==
    /\ runPc = "serving"
    /\ nsig < MaxSignals
    /\ \E s \in Signals :
          /\ SignalHandlers(s) = "exit"
          /\ sig' = s
    /\ nsig' = nsig + 1
    /\ events' = events \o deferred(sockType)
    /\ removed' = removed \o RemoveAll(sockType, conf)
    /\ runPc' = "returned"
    /\ UNCHANGED <<conf, setters, sockType, stopFn, srv, caches, storage, svars,
                   wvars, sockPath, tvars, hvars>>

\* srvRun() returned an error: Run returns after its deferred functions
ExecFailed ==
    /\ runPc = "serving"
    /\ srv = "failed"
    /\ events' = events \o deferred(sockType)
    /\ removed' = removed \o RemoveAll(sockType, conf)
    /\ runPc' = "returned"
    /\ UNCHANGED <<conf, setters, sockType, stopFn, srv, sig, nsig, caches, storage,
                   svars, wvars, sockPath, tvars, hvars>>

\* f.Stop(), called once by the program that holds the server: the storage
\* is closed, then f.stopFn is called
Stop ==
    /\ runPc # "panic"
    /\ ~Took("storage.Close") /\ ~Took("srvStop")
    /\ storage' = IF storage = "open" THEN "closed" ELSE storage
    /\ events' = events
                    \o (IF storage = "open" THEN <<"storage.Close">> ELSE <<>>)
                    \o (IF stopFn = "srvStop" THEN <<"srvStop">> ELSE <<>>)
    /\ srv' = IF stopFn = "srvStop" /\ srv = "accepting" THEN "stopped" ELSE srv
    /\ UNCHANGED <<conf, setters, sockType, stopFn, runPc, sig, nsig, caches, svars,
                   wvars, sockPath, removed, tvars, hvars>>

\* srvRun() returned nil after the server was shut down: the goroutine
\* started next calls err.Error() on the nil error and panics
AfterServe ==
    /\ runPc \in {"serving", "returned"}
    /\ srv = "stopped"
    /\ runPc' = "panic"
    /\ UNCHANGED <<conf, setters, sockType, stopFn, srv, sig, nsig, events, caches,
                   storage, svars, wvars, sockPath, removed, tvars, hvars>>

NextRun ==
    Run \/ Serve \/ Request \/ Sighup \/ Interrupt \/ ExecFailed \/ Stop \/ AfterServe

SpecRun == InitRun /\ [][NextRun]_vars

(***************************************************************************)
(* The hidden collections of a stored actor, which no Save creates.        *)
(***************************************************************************)
HiddenIRIs == {CollectionIRI(actorA, c) : c \in HiddenCollections}

LoadHidden == (\E c \in HiddenIRIs : Load(c)) /\ UNCHANGED <<wvars, rvars>>

SetActorPassword == PasswordSet(actorA, Password("p", "")) /\ UNCHANGED <<wvars, rvars>>

SaveActor ==
    (\E x \in {Object(actorA, "Person", ActorColl(actorA)),
                Object(actorA, "Person", NoColl)} : Save(x))
        /\ UNCHANGED <<wvars, rvars>>
AddToInbox ==
    (\E x \in MemberItems : AddTo(inboxA, IRIItem(GetLink(x))))
        /\ UNCHANGED <<wvars, rvars>>

NextHidden ==
    SaveActor \/ SaveMember \/ AddToInbox \/ SetActorPassword \/ LoadHidden

SpecHidden == Init /\ [][NextHidden]_vars

(***************************************************************************)
(* descendInBucket in read mode, on the paths of the callers: paths whose  *)
(* buckets exist or not, with empty components, and paths that end in the  *)
(* name of a hidden collection.                                            *)
(***************************************************************************)
Paths == {<<>>,
          <<"h", "actors", "a">>,
          <<"h", "", "actors", "a", "">>,
          <<"h", "actors", "a", "inbox">>,
          <<"h", "actors", "a", "blocked">>,
          <<"h", "actors", "a", "ignored">>,
          <<"h", "actors", "m", "blocked">>,
          <<"h", "objects", "", "n", "likes">>,
          <<"x", "objects", "n">>}

\* a read transaction that calls descendInBucket(root, path, false) on the
\* root bucket it found
Descend ==
    /\ rootBucket \in DOMAIN db
    /\ \E path \in Paths :
          LET r == descendInBucket(db, path, FALSE)
          IN  last' = Call("descendInBucket", path, NilItem, NoPw, r.err, <<r>>)
    /\ UNCHANGED <<db, d, firstAdd, deleted, wvars, rvars>>

NextPath == SaveItem \/ Descend

SpecPath == Init /\ [][NextPath]_vars

(***************************************************************************)
(* The bootstrap of the instance (New).  The self service is the actor     *)
(* stored at the root of the base URL; New creates it, and its key, when   *)
(* loading it does not yield an actor of that id.                          *)
(***************************************************************************)
\* ap.DefaultServiceIRI(baseURL): the root path when the URL has no path
DefaultServiceIRI(url) == IF Path(url) = <<>> THEN Append(url, "") ELSE url

selfIRI == DefaultServiceIRI(baseURL)

\* ap.Self(selfIRI): the service actor of the instance
Self(iri) == Object(iri, "Service", ActorColl(iri))

\* the zero value of vocab.Actor
NoActor == Object(NilIRI, "", NoColl)

\* ap.LoadActor(db, iri): the actor Load returns, or the zero value
LoadActor(s, iri) ==
    LET r == LoadResult(s, iri)
    IN  IF r.err = "ok" /\ Len(r.col) > 0 /\ IsObject(r.col[1])
           /\ GetType(r.col[1]) \in ActorTypes
        THEN r.col[1] ELSE NoActor

\* createService(r.d, service): the service is written at its bucket
createService(s, service) ==
    LET root == CreateBucketIfNotExists(s, rootBucket)
        h == descendInBucket(root, itemBucketPath(GetLink(service)), TRUE)
    IN  IF h.err # "ok" THEN [s |-> s, err |-> "Error"]
        ELSE [s |-> [h.s EXCEPT ![h.b].raw = encodeFn(service)], err |-> "ok"]

\* the private keys a key generator may return
Keys == {"k1", "k2"}

\* AddKeyToPerson(saver, keysType)(&self): a generated key is saved in the
\* metadata of an actor that has none
AddKeyToPerson(s, iri, key) ==
    LET b == BucketOf(iri)
    IN  IF b \notin DOMAIN s THEN s
        ELSE IF s[b].meta # NoVal /\ s[b].meta.key # <<>> THEN s
        ELSE [s EXCEPT ![b].meta =
                  encodeMetadata(IF s[b].meta = NoVal THEN <<>> ELSE s[b].meta.pw,
                                 <<key>>)]

\* the test of New bootstrapping every time
needsBootstrap_Always(self, iri) == TRUE

\* the test of New: app.self.ID != selfIRI
needsBootstrap(self, iri) == self.id # iri

\* New(l, ver, conf, db) on the store of the repository
New ==
    /\ \E key \in Keys :
          LET self == LoadActor(db, selfIRI)
              c == createService(db, Self(selfIRI))
          IN  /\ db' = IF ~needsBootstrap(self, selfIRI) THEN db
                        ELSE IF c.err # "ok" THEN db
                        ELSE AddKeyToPerson(c.s, selfIRI, key)
              /\ last' = Call("New", selfIRI, NilItem, NoPw,
                               IF needsBootstrap(self, selfIRI) THEN c.err ELSE "ok",
                               <<self>>)
    /\ d' = "closed"
    /\ UNCHANGED <<firstAdd, deleted, wvars, rvars>>

\* the self service as an Update activity may leave it
SelfItems == {Object(selfIRI, "Service", NoColl),
              Tagged(Self(selfIRI), <<objectN>>)}

UpdateSelf == (\E x \in SelfItems : Save(x)) /\ UNCHANGED <<wvars, rvars>>
LoadSelf == Load(selfIRI) /\ UNCHANGED <<wvars, rvars>>
SetSelfPassword ==
    (\E pw \in {Password("p", "")} : PasswordSet(selfIRI, pw))
        /\ UNCHANGED <<wvars, rvars>>

NextBoot == New \/ UpdateSelf \/ LoadSelf \/ SetSelfPassword \/ SaveMember

SpecBoot == Init /\ [][NextBoot]_vars

(***************************************************************************)
(* Properties.                                                             *)
(***************************************************************************)
NoDuplicates(iris) ==
    \A j, k \in 1..Len(iris) : j # k => ~Equals(iris[j], iris[k], FALSE)

\* C1: after Save(x) returns success, Load of the IRI of x returns an item
\* equal to x, also when x is an Actor with its collection properties set.
C1_SaveThenLoad ==
    (last.op = "Save" /\ last.err = "ok") =>
        LET r == LoadResult(db, last.iri)
        IN  r.err = "ok" /\ r.col = <<last.it>>

\* C2: after any sequence of AddTo and RemoveFrom calls no stored member
\* list of a collection contains the same IRI twice.
C2_NoDuplicateMembers ==
    \A c \in Collections : NoDuplicates(Members(db, c))

C2_Witness ==
    /\ last.op = "AddTo" /\ last.err = "ok" /\ last.rep = 2
    /\ Len(Members(db, last.iri)) = 2

\* C3: after AddTo(c, x); AddTo(c, x); RemoveFrom(c, x), Load(c) succeeds
\* with a result that does not contain x and has no duplicates, and neither
\* does the stored member list, whatever c contained before.
C3_AddAddRemove ==
    last.seq3 =>
        LET r == LoadResult(db, last.iri)
        IN  /\ r.err = "ok"
            /\ ~Contains(Links(r.col), GetLink(last.it))
            /\ NoDuplicates(Links(r.col))
            /\ ~Contains(Members(db, last.iri), GetLink(last.it))
            /\ NoDuplicates(Members(db, last.iri))

C3_Witness ==
    /\ last.seq3
    /\ Stored(db, GetLink(last.it))
    /\ Len(LoadResult(db, last.iri).col) = 1

\* the one item a load of iri returns is a Tombstone of the given former type
IsTombstoneOf(s, iri, formerType) ==
    LET r == LoadResult(s, iri)
    IN  /\ r.err = "ok" /\ Len(r.col) = 1
        /\ r.col[1].kind = "object"
        /\ r.col[1].type = "Tombstone"
        /\ Equals(r.col[1].id, iri, FALSE)
        /\ r.col[1].formerType = formerType
        /\ r.col[1].deleted

StoredType(s, iri) == UnmarshalJSON(s[BucketOf(iri)].raw).type

\* C5: Delete(i) of a stored item x succeeds, and Load(i) then yields a
\* Tombstone with IRI i, FormerType the type of x, and Deleted set.
C5_DeleteLeavesTombstone ==
    [][(last'.op = "Delete" /\ Stored(db, last'.iri)) =>
          /\ last'.err = "ok"
          /\ IsTombstoneOf(db', last'.iri, StoredType(db, last'.iri))]_vars

\* C6: after Delete(i) of a stored item every later Save of an item with
\* ID i fails with Conflict and leaves the store unchanged.
C6_SaveAfterDeleteConflicts ==
    [][(last'.op = "Save" /\ BucketOf(last'.iri) \in deleted) =>
          (last'.err = "Conflict" /\ db' = db)]_vars

\* C7: a second Delete(i) of a stored item returns what the first returned,
\* success, and leaves the store as the first Delete left it.
C7_DeleteIdempotent ==
    [][(last'.op = "Delete" /\ last'.rep = 2 /\ BucketOf(last'.iri) \in deleted) =>
          (last'.err = "ok" /\ last'.prevErr = "ok" /\ db' = db)]_vars

\* C8: RemoveFrom(c, x) on an existing local collection c that does not
\* contain x returns success and leaves the members of c and their order
\* unchanged.
C8_RemoveAbsent ==
    [][(/\ last'.op = "RemoveFrom"
        /\ IsLocalIRI(last'.iri)
        /\ BucketOf(last'.iri) \in DOMAIN db
        /\ ~Contains(Members(db, last'.iri), GetLink(last'.it))) =>
          /\ last'.err = "ok"
          /\ Members(db', last'.iri) = Members(db, last'.iri)
          /\ Links(LoadResult(db', last'.iri).col) = Links(LoadResult(db, last'.iri).col)]_vars

C8_Witness ==
    /\ last.op = "RemoveFrom" /\ last.err = "ok"
    /\ ~Contains(firstAdd[last.iri], GetLink(last.it))
    /\ Len(Members(db, last.iri)) = 1

\* what PasswordCheck returns for every password after a PasswordSet of pw
ChecksAfterSet(pass(_)) ==
    \A i \in PasswordIRIs, p \in Passwords :
        BucketOf(i) = BucketOf(last.iri) =>
            passwordCheck(db, i, p) = IF pass(p) THEN "ok" ELSE "Unauthorized"

\* C9: after PasswordSet(i, p) succeeds, PasswordCheck(i, p)
\* succeeds and PasswordCheck(i, p') fails with Unauthorized for every p'
\* different from p, also when p replaces an earlier password.
C9_OnlySetPasswordPasses ==
    (last.op = "PasswordSet" /\ last.err = "ok") =>
        ChecksAfterSet(LAMBDA p : p = last.pw)

\* C9 for passwords told apart by bcrypt: after PasswordSet(i, p) succeeds,
\* PasswordCheck(i, p) succeeds and PasswordCheck(i, p') fails with
\* Unauthorized for every p' that differs from p in its first 72 bytes, also
\* when p replaces an earlier password.
C9_PasswordCheck ==
    (last.op = "PasswordSet" /\ last.err = "ok") =>
        ChecksAfterSet(LAMBDA p : p.head = last.pw.head)

C9_Witness ==
    /\ last.op = "PasswordSet" /\ last.err = "ok" /\ last.pw = Password("q", "")
    /\ passwordCheck(db, last.iri, Password("p", "")) = "Unauthorized"
    /\ passwordCheck(db, last.iri, Password("q", "")) = "ok"

\* the position of the IRI in the list
Pos(iris, iri) == CHOOSE k \in 1..Len(iris) : Equals(iris[k], iri, FALSE)

\* the order of two lists agrees on the IRIs they share
SameOrder(old, new) ==
    \A j, k \in 1..Len(new) :
        (j < k /\ Contains(old, new[j]) /\ Contains(old, new[k])) =>
            Pos(old, new[j]) < Pos(old, new[k])

\* C10 as stated: Load(c) returns the members of c in the order of their
\* first successful AddTo.
C10_FirstAddOrder ==
    \A c \in Collections :
        SameOrder(firstAdd[c], Links(LoadResult(db, c).col))

\* C10 as amended: no call changes the relative order in Load(c) of the
\* members that stay, and an AddTo of an absent IRI puts it after all the
\* members, so that Load(c) returns the members in the order of the AddTo
\* calls that inserted them, an IRI removed and added again counting from
\* its latest insertion.
C10_AddOrder ==
    [][\A c \in Collections :
          /\ SameOrder(Members(db, c), Members(db', c))
          /\ SameOrder(Links(LoadResult(db, c).col), Links(LoadResult(db', c).col))
          /\ (/\ last'.op = "AddTo" /\ last'.err = "ok" /\ last'.iri = c
              /\ ~Contains(Members(db, c), GetLink(last'.it))) =>
                Members(db', c) = Append(Members(db, c), GetLink(last'.it))]_vars

C10_Witness ==
    LET ids == Links(LoadResult(db, inboxA).col)
    IN  /\ last.op = "AddTo" /\ last.err = "ok" /\ last.iri = inboxA
        /\ Len(ids) = 2
        /\ Equals(ids[2], GetLink(last.it), FALSE)
        /\ Equals(firstAdd[inboxA][1], GetLink(last.it), FALSE)

AllDone == \A w \in Workers : pc[w] = "done"

\* C4: when all the workers' AddTo(c, x_w) have returned, Load(c) returns
\* exactly the items x_w, each once, and the stored member list holds
\* exactly their IRIs, each once.
C4_ConcurrentAddTo ==
    AllDone =>
        LET r == LoadResult(db, inboxA)
        IN  /\ r.err = "ok"
            /\ Len(r.col) = NWorkers
            /\ {r.col[k] : k \in 1..Len(r.col)} = {WorkerItem(w) : w \in Workers}
            /\ Len(Members(db, inboxA)) = NWorkers
            /\ {Members(db, inboxA)[k] : k \in 1..NWorkers}
                   = {GetLink(WorkerItem(w)) : w \in Workers}

C4_Witness ==
    /\ AllDone
    /\ \E w \in Workers : owner[w] # NilItem
    /\ Members(db, inboxA)[1] = GetLink(WorkerItem(NWorkers))

\* the stored item at iri, decoded
StoredItem(s, iri) == UnmarshalJSON(s[BucketOf(iri)].raw)

\* C11: Load of an owned collection whose bucket was never created under a
\* stored owner returns what Load of an existing collection without members
\* returns: an empty list and no error.
C11_MissingAsEmpty ==
    \A c \in Collections :
        (Stored(db, SplitOwner(c)) /\ Members(db, c) = <<>>) =>
            LoadResult(db, c) = [col |-> <<>>, err |-> "ok"]

\* C12: every bucket that holds an item, a member list or metadata lies
\* under the host of the base URL.
C12_OnlyLocalBuckets ==
    \A b \in DOMAIN db :
        (db[b].raw # NoVal \/ db[b].meta # NoVal) => b[1] = Host(baseURL)

\* C13: after Save of an Actor with its five collection properties set, the
\* bucket of the actor has a child bucket for each of the five names and
\* Load of each of the five collection IRIs succeeds with an empty result.
C13_ActorCollectionsCreated ==
    (/\ last.op = "Save" /\ last.err = "ok"
     /\ GetType(last.it) \in ActorTypes
     /\ \A t \in OfActor : last.it.col[t] # NilIRI) =>
        \A t \in OfActor :
            /\ Append(BucketOf(last.iri), t) \in DOMAIN db
            /\ LoadResult(db, CollectionIRI(last.iri, t)) = [col |-> <<>>, err |-> "ok"]

\* C14: after AddTo(c, x) succeeds, where c is <owner>/<name> for a valid
\* collection name and the owner is stored without that collection property,
\* the stored owner has that property set to c.
C14_AddToSetsCollection ==
    [][(/\ last'.op = "AddTo" /\ last'.err = "ok"
        /\ ValidCollection(SplitName(last'.iri))
        /\ Stored(db, SplitOwner(last'.iri))
        /\ StoredItem(db, SplitOwner(last'.iri)).col[SplitName(last'.iri)] = NilIRI) =>
          /\ Stored(db', SplitOwner(last'.iri))
          /\ StoredItem(db', SplitOwner(last'.iri)).col[SplitName(last'.iri)]
                 = last'.iri]_vars

\* C15: Load(i) terminates for every content of the store, also when tags
\* form a cycle and when the stored value of an item is a bare IRI.
C15_LoadTerminates ==
    \A i \in RefIRIs : LoadResult(db, i).err # "overflow"

Interrupts == {"SIGINT", "SIGTERM", "SIGQUIT"}

\* the step s was taken before the k-th step
TookBefore(s, k) == \E j \in 1..(k - 1) : events[j] = s

\* C16: when SIGINT, SIGTERM or SIGQUIT is handled while the server is
\* accepting, the stop function of the HTTP server is invoked before Run
\* returns.
C16_InterruptStopsServer ==
    [][(/\ nsig' # nsig /\ sig' \in Interrupts
        /\ srv = "accepting" /\ runPc' = "returned") => Took("srvStop")']_vars

\* C17: handling SIGHUP drops the request cache and does not interrupt the
\* service: the stop function is not invoked, nothing is sent on the exit
\* channel, so that Run does not return, and the server is as it was.
C17_SighupKeepsServing ==
    [][(nsig' # nsig /\ sig' = "SIGHUP") =>
          /\ caches' = "empty"
          /\ conf' \in Options
          /\ srv' = srv /\ runPc' = runPc /\ runPc = "serving"
          /\ events' = events /\ storage' = storage /\ stopFn' = stopFn]_vars

C17_Witness ==
    /\ nsig = MaxSignals /\ sig = "SIGHUP"
    /\ srv = "accepting" /\ runPc = "serving" /\ caches = "filled"

\* C18: on shutdown the server is stopped, then the storage is closed, then
\* the socket file is removed: the storage is never closed while the server
\* accepts, and the socket file is never removed before the server stopped.
C18_ShutdownOrder ==
    /\ storage = "closed" => srv # "accepting"
    /\ \A k \in 1..Len(events) :
          events[k] \in {"storage.Close", "RemoveAll"} => TookBefore("srvStop", k)
    /\ \A k \in 1..Len(events) :
          events[k] = "RemoveAll" => ~TookBefore("RemoveAll", k)

\* the listener setters among the setters
Listeners(ss) == SelectSeq(ss, LAMBDA x : x \in {"OnSystemd", "OnSocket", "OnTCP"})

\* C19: Run selects exactly one listener: systemd activation when Listen is
\* "systemd", otherwise a UNIX socket when Listen is an absolute path,
\* otherwise TCP.
C19_OneListener ==
    [][(runPc = "new" /\ runPc' # "new") =>
          Listeners(setters') =
              IF conf.Listen = "systemd" THEN <<"OnSystemd">>
              ELSE IF IsAbs(conf.Listen) THEN <<"OnSocket">>
              ELSE <<"OnTCP">>]_vars

\* C20: Run configures the TLS certificate only when Secure is set and both
\* CertPath and KeyPath are set; in every other case no certificate is
\* configured and Secure is false afterwards.
C20_TLSOnlyWithBoth ==
    [][(runPc = "new" /\ runPc' # "new") =>
          LET both == conf.Secure /\ conf.CertPath # "" /\ conf.KeyPath # ""
              tls == \E k \in 1..Len(setters') : setters'[k] = "WithTLSCert"
          IN  /\ tls <=> both
              /\ ~both => ~conf'.Secure]_vars

\* the self service is stored: an actor whose id is the default service IRI
Bootstrapped(s) ==
    /\ Stored(s, selfIRI)
    /\ StoredItem(s, selfIRI).id = selfIRI
    /\ StoredItem(s, selfIRI).type \in ActorTypes

\* C21: New over a store that holds the self service, an actor whose id is
\* the default service IRI of the base URL, does not call CreateService: it
\* leaves the stored self actor and its keys, and the whole store, as they
\* were.
C21_BootstrapOnce ==
    [][(last'.op = "New" /\ Bootstrapped(db)) => db' = db]_vars

C21_Witness ==
    /\ last.op = "New" /\ last.err = "ok"
    /\ last.ret = <<Object(selfIRI, "Service", NoColl)>>
    /\ db[BucketOf(selfIRI)].meta # NoVal
    /\ db[BucketOf(selfIRI)].meta.key # <<>>

\* C22: Load(i) fails with NotFound whenever no item is stored at i, whether
\* the bucket path of i does not exist or the bucket exists without a
\* `__raw` value.
C22_LoadMissingNotFound ==
    (last.op = "Load" /\ ~Stored(db, last.iri)) => last.err = "NotFound"

\* C23: the resolution of references by Load is one level deep: an item
\* embedded in the place of a tag of the item loaded keeps its own tags as
\* bare IRIs.
C23_OneLevelDeep ==
    (last.op = "Load" /\ last.err = "ok") =>
        \A k \in 1..Len(last.ret) :
            IsObject(last.ret[k]) =>
                \A j \in 1..Len(last.ret[k].tag) :
                    IsObject(last.ret[k].tag[j]) =>
                        \A l \in 1..Len(last.ret[k].tag[j].tag) :
                            IsIRI(last.ret[k].tag[j].tag[l])

\* the buckets of the store at and below bucket b, with their content
Subtree(s, b) ==
    [q \in {q \in DOMAIN s : Len(q) >= Len(b) /\ SubSeq(q, 1, Len(b)) = b} |-> s[q]]

\* C24: a collection mutation is atomic: when AddTo(c, x) has failed, the
\* store is as it was before the call: the host item of c is unchanged and
\* no bucket was materialised at or below it.
C24_FailedAddToLeavesStore ==
    \A w \in Workers :
        pc[w] = "failed" =>
            Subtree(db, BucketOf(SplitOwner(wcol[w])))
                = Subtree(db0, BucketOf(SplitOwner(wcol[w])))

\* C25: every Load runs inside exactly one read transaction: at no time
\* does a Load hold two transactions.
C25_OneReadTransaction ==
    last.op = "Load" => LoadTx(db, last.iri) = 1

\* the buckets named by the first k components of the path all exist
Walked(s, path, k) ==
    \A j \in 1..k : path[j] = "" \/ Clean(SubSeq(path, 1, j)) \in DOMAIN s

\* the number of components of the path up to the deepest existing bucket
Deepest(s, path) ==
    CHOOSE k \in 0..Len(path) :
        Walked(s, path, k) /\ \A j \in (k + 1)..Len(path) : ~Walked(s, path, j)

\* C26: descendInBucket in read mode returns the deepest existing bucket
\* along the path and the remainder of the path, empty components being
\* skipped, creates nothing, and returns NotFound exactly when the remainder
\* is not empty and does not name a hidden collection.
C26_DescendRead ==
    last.op = "descendInBucket" =>
        LET r == last.ret[1]
            k == Deepest(db, last.iri)
        IN  /\ r.b = Clean(SubSeq(last.iri, 1, k))
            /\ r.rem = SubSeq(last.iri, k + 1, Len(last.iri))
            /\ r.s = db
            /\ (r.err = "NotFound") <=>
                   (r.rem # <<>> /\ \A c \in HiddenCollections : r.rem # <<c>>)
            /\ r.err \in {"ok", "NotFound"}

C26_Witness ==
    /\ last.op = "descendInBucket" /\ last.err = "ok"
    /\ last.ret[1].rem = <<"blocked">>
    /\ last.ret[1].b = <<"h", "actors", "a">>
    /\ Append(last.ret[1].b, "inbox") \in DOMAIN db

\* C27: Load of a hidden collection that is absent under a stored actor
\* returns an empty result and no error: neither the actor nor the members
\* of its other collections.
C27_HiddenLoadsEmpty ==
    (/\ last.op = "Load" /\ last.iri \in HiddenIRIs
     /\ Stored(db, SplitOwner(last.iri))
     /\ BucketOf(last.iri) \notin DOMAIN db) =>
        (last.err = "ok" /\ last.ret = <<>>)

\* C28: when a stored item is loaded, every entry of its tag list that is
\* the IRI of a stored item is replaced by that item, whatever comes before
\* it in the list, and every other entry stays as it is stored.
C28_EveryTagResolved ==
    (/\ last.op = "Load" /\ last.err = "ok" /\ Len(last.ret) = 1
     /\ Stored(db, last.iri)) =>
        LET st == StoredItem(db, last.iri)
            x == last.ret[1]
        IN  /\ IsObject(x) /\ Len(x.tag) = Len(st.tag)
            /\ \A j \in 1..Len(st.tag) :
                  IF IsIRI(st.tag[j]) /\ Stored(db, st.tag[j].iri)
                  THEN IsObject(x.tag[j])
                          /\ Equals(GetLink(x.tag[j]), st.tag[j].iri, FALSE)
                  ELSE x.tag[j] = st.tag[j]

\* C29: Save returns and stores an Actor each of whose collection
\* properties that was set is the IRI of the collection of that name under
\* the IRI of the actor, and the bucket of the actor has a child bucket of
\* that name.
C29_ActorCollectionIRIs ==
    (/\ last.op = "Save" /\ last.err = "ok"
     /\ GetType(last.it) \in ActorTypes) =>
        \A t \in OfActor :
            last.it.col[t] # NilIRI =>
                /\ last.ret[1].col[t] = CollectionIRI(last.iri, t)
                /\ StoredItem(db, last.iri).col[t] = CollectionIRI(last.iri, t)
                /\ Append(BucketOf(last.iri), t) \in DOMAIN db

\* what a Save of the stored item iri keeps: the members of each collection
\* the item owns, the metadata of the item, and every value of every bucket
\* there was other than the __raw of the item; a bucket it adds is the empty
\* bucket of a collection of the item
UpdateKeeps(iri) ==
    LET b == BucketOf(iri)
    IN  /\ \A t \in AllColl :
              Members(db', CollectionIRI(iri, t)) = Members(db, CollectionIRI(iri, t))
        /\ db'[b].meta = db[b].meta
        /\ \A p \in DOMAIN db : p \in DOMAIN db' /\ (p # b => db'[p] = db[p])
        /\ \A p \in DOMAIN db' \ DOMAIN db :
              /\ db'[p] = EmptyBucket
              /\ \E t \in AllColl : p = Append(b, t)

C31_RemoveFromAbsentCollection ==
    [][(/\ last'.op = "RemoveFrom" /\ last' # last
        /\ onCollectionArgs(last'.iri, last'.it) = "ok"
        /\ rootBucket \in DOMAIN db
        /\ BucketOf(last'.iri) \notin DOMAIN db) =>
            (last'.err = "ok" /\ db' = db)]_vars

(***************************************************************************)
(* The metadata of items: private keys and passwords.                      *)
(***************************************************************************)
\* the private keys saved
PrivateKeys == {"k1", "k2"}

\* r.SaveMetadata(m, iri)
SaveMetadata(m, iri) ==
    LET r == saveMetadata(db, m, iri)
    IN  /\ db' = r.s
        /\ d' = "closed"
        /\ last' = Call("SaveMetadata", iri, NilItem, NoPw, r.err, <<m>>)
        /\ UNCHANGED <<firstAdd, deleted>>

\* r.LoadKey(iri)
LoadKey(iri) ==
    LET r == loadKey(db, iri)
    IN  /\ d' = "closed"
        /\ last' = Call("LoadKey", iri, NilItem, NoPw, r.err, r.key)
        /\ UNCHANGED <<db, firstAdd, deleted>>

SaveKey ==
    (\E i \in {actorA, objectN}, k \in PrivateKeys :
        SaveMetadata([pw |-> <<>>, key |-> <<k>>], i))
        /\ UNCHANGED <<wvars, rvars>>
SetKeyPassword ==
    (\E i \in {actorA, objectN}, pw \in {Password("p", ""), Password("q", "")} :
        PasswordSet(i, pw))
        /\ UNCHANGED <<wvars, rvars>>
LoadKeyOf == (\E i \in {actorA, objectN} : LoadKey(i)) /\ UNCHANGED <<wvars, rvars>>

NextMeta == SaveActor \/ SaveKey \/ SetKeyPassword \/ LoadKeyOf

SpecMeta == Init /\ [][NextMeta]_vars

\* C32: a PasswordSet changes only the password of the metadata of an
\* item: the private key LoadKey returned for the item before the call is
\* the one it returns after it.
C32_PasswordSetKeepsKey ==
    [][(/\ last'.op = "PasswordSet" /\ last'.err = "ok" /\ last' # last
        /\ loadKey(db, last'.iri).err = "ok") =>
            loadKey(db', last'.iri) = loadKey(db, last'.iri)]_vars

\* C33: when Run has returned, the paths it removed are the path at which
\* the socket was created when it started, and none when no socket was
\* created, whatever reloads came between.
C33_RemovesCreatedSocket ==
    runPc = "returned" =>
        removed = (IF sockPath = "" THEN <<>> ELSE <<sockPath>>)

(***************************************************************************)
(* The deadline of the shutdown.  Run derives the context it hands to      *)
(* srvStop from its own with f.conf.TimeOut when it starts; srvStop        *)
(* returns when no request is being served or when the context is done.    *)
(***************************************************************************)
\* f.conf.TimeOut, in ticks of the clock
TimeOut == 2

\* the clock stops at MaxClock
MaxClock == 4

\* the deadline of ctx: context.WithTimeout(c, f.conf.TimeOut) at the time
\* Run is called, which is the time 0 of the clock
ctxDeadline == 0 + TimeOut

\* ctx.Done() is closed
ctxDone == clock >= ctxDeadline

\* srvStop(ctx) was called and has not returned
Stopping == shut.req # -1 /\ shut.ret = -1

\* time passes while the server runs, unless srvStop is about to return
Tick ==
    /\ runPc = "serving"
    /\ srv = "accepting"
    /\ clock < MaxClock
    /\ ~(Stopping /\ (~inflight \/ ctxDone))
    /\ clock' = clock + 1
    /\ UNCHANGED <<conf, setters, sockType, stopFn, srv, runPc, sig, nsig, events,
                   caches, storage, sockPath, removed, inflight, shut, svars, wvars,
                   hvars>>

\* the server begins to serve a request; none is accepted after srvStop
\* was called
Accept ==
    /\ runPc = "serving"
    /\ srv = "accepting"
    /\ shut.req = -1
    /\ ~inflight
    /\ inflight' = TRUE
    /\ UNCHANGED <<conf, setters, sockType, stopFn, srv, runPc, sig, nsig, events,
                   caches, storage, sockPath, removed, clock, shut, svars, wvars,
                   hvars>>

\* the request is served
Finish ==
    /\ inflight
    /\ shut.ret = -1
    /\ inflight' = FALSE
    /\ UNCHANGED <<conf, setters, sockType, stopFn, srv, runPc, sig, nsig, events,
                   caches, storage, sockPath, removed, clock, shut, svars, wvars,
                   hvars>>

\* f.stopFn() calls srvStop(ctx)
Shutdown ==
    /\ runPc = "serving"
    /\ srv = "accepting"
    /\ stopFn = "srvStop"
    /\ shut.req = -1
    /\ shut' = [shut EXCEPT !.req = clock]
    /\ UNCHANGED <<conf, setters, sockType, stopFn, srv, runPc, sig, nsig, events,
                   caches, storage, sockPath, removed, clock, inflight, svars, wvars,
                   hvars>>

\* srvStop(ctx) returns: no request is being served, or the context is
\* done and the request being served is cut
ShutdownReturns ==
    /\ Stopping
    /\ ~inflight \/ ctxDone
    /\ shut' = [shut EXCEPT !.ret = clock, !.forced = inflight]
    /\ inflight' = FALSE
    /\ srv' = "stopped"
    /\ UNCHANGED <<conf, setters, sockType, stopFn, runPc, sig, nsig, events,
                   caches, storage, sockPath, removed, clock, svars, wvars,
                   hvars>>

NextTime == Run \/ Serve \/ Tick \/ Accept \/ Finish \/ Shutdown \/ ShutdownReturns

SpecTime == InitRun /\ [][NextTime]_vars

\* C34: the time of TimeOut that bounds the shutdown starts when the
\* shutdown is requested: a request that is cut when srvStop returns had at
\* least TimeOut since srvStop was called, however long the server ran.
C34_GraceFromShutdown ==
    (shut.ret # -1 /\ shut.forced) => shut.ret - shut.req >= TimeOut

(***************************************************************************)
(* New, for every storage and every configuration: a storage that is nil,  *)
(* an empty BaseURL, a backend with or without the capabilities            *)
(* CanBootstrap and MetadataTyper, and calls that fail.                    *)
(***************************************************************************)
\* what New is called with and what the calls it makes answer
NewInputs ==
    [db : {"nil", "storage"}, BaseURL : {NilIRI, baseURL},
     CanBootstrap : BOOLEAN, MetadataTyper : BOOLEAN,
     createFails : BOOLEAN, keyFails : BOOLEAN, authFails : BOOLEAN]

\* saver.CreateService(app.self) of a backend that has it; created is what
\* createService does on the store s
CreateService(s, o, created) ==
    IF o.createFails THEN [s |-> s, err |-> "Error"] ELSE created

\* the error of New that also returns the error of the key generator
newErr_KeyError(o, boot, cerr) ==
    IF o.db = "nil" THEN "Error"
    ELSE IF o.BaseURL = NilIRI THEN "Error"
    ELSE IF boot /\ o.CanBootstrap /\ cerr # "ok" THEN "Error"
    ELSE IF boot /\ o.MetadataTyper /\ o.keyFails THEN "Error"
    ELSE IF o.authFails THEN "Error"
    ELSE "ok"

\* the error New returns; boot says that the self service was not loaded,
\* cerr is the error of CreateService
newErr(o, boot, cerr) ==
    IF o.db = "nil" THEN "Error"
    ELSE IF o.BaseURL = NilIRI THEN "Error"
    ELSE IF boot /\ o.CanBootstrap /\ cerr # "ok" THEN "Error"
    ELSE IF o.authFails THEN "Error"
    ELSE "ok"

\* the store New leaves
newStore(s, o, boot, c, key) ==
    IF o.db = "nil" \/ o.BaseURL = NilIRI \/ ~boot THEN s
    ELSE IF o.CanBootstrap /\ c.err # "ok" THEN s
    ELSE LET s1 == IF o.CanBootstrap THEN c.s ELSE s
         IN  IF o.MetadataTyper /\ ~o.keyFails THEN AddKeyToPerson(s1, selfIRI, key)
             ELSE s1

\* New(l, ver, conf, db): the instance is returned when the error is nil;
\* self is what ap.LoadActor returns for the self service
NewWith(o, self, created) ==
    /\ \E key \in Keys, boot \in {needsBootstrap(self, selfIRI)},
           c \in {CreateService(db, o, created)} :
          /\ db' = newStore(db, o, boot, c, key)
          /\ \E err \in {newErr(o, boot, c.err)} :
                last' = [Call("New", selfIRI, NilItem, NoPw, err,
                              <<IF err = "ok" THEN "instance" ELSE "nil">>)
                           EXCEPT !.pw = [o |-> o, boot |-> boot, cerr |-> c.err]]
    /\ d' = IF o.db = "nil" \/ o.BaseURL = NilIRI THEN d ELSE "closed"
    /\ UNCHANGED <<firstAdd, deleted, wvars, rvars>>

NewCall ==
    \E self \in {LoadActor(db, selfIRI)}, created \in {createService(db, Self(selfIRI))} :
        \E o \in NewInputs : NewWith(o, self, created)

NextNew == NewCall \/ UpdateSelf \/ LoadSelf

SpecNew == Init /\ [][NextNew]_vars

\* C35: New returns an error and no instance when the storage is nil, when
\* BaseURL is empty, and when CreateService fails while New bootstraps;
\* when none of these holds and the authorization server is made, New
\* returns the instance, also for a backend without CanBootstrap or without
\* MetadataTyper and when the key of the self service cannot be generated.
C35_NewFailures ==
    last.op = "New" =>
        LET o == last.pw.o
            fails == \/ o.db = "nil"
                     \/ o.BaseURL = NilIRI
                     \/ (last.pw.boot /\ o.CanBootstrap /\ last.pw.cerr # "ok")
        IN  /\ fails => (last.err # "ok" /\ last.ret = <<"nil">>)
            /\ (~fails /\ ~o.authFails) =>
                    (last.err = "ok" /\ last.ret = <<"instance">>)

C35_Witness ==
    /\ last.op = "New" /\ last.err = "ok"
    /\ last.pw.boot
    /\ last.pw.o.MetadataTyper /\ last.pw.o.keyFails
    /\ ~last.pw.o.CanBootstrap

(***************************************************************************)
(* The database handle.  Every operation assigns the handle bolt.Open      *)
(* returns to r.d, nil when Open fails, and defers r.Close(), which closes *)
(* the handle r.d holds then; r.d is shared by the calls of all            *)
(* goroutines and read without synchronisation.                            *)
(***************************************************************************)
\* the operations by the way they use the handle: Load ignores the error
\* of Open, AddTo reads r.d before it opens the database, and Save stands
\* for the operations that return the error of Open and run one
\* transaction (Save, Create, Delete, RemoveFrom, PasswordSet,
\* PasswordCheck, LoadMetadata, SaveMetadata, CreateService)
Operations == {"Load", "Save", "AddTo"}

\* a call that has not started
NewCallOf(op) ==
    [op |-> op, phase |-> "main", handle |-> "none", openErr |-> FALSE,
     txs |-> {}, err |-> "none"]

\* the state of the handle h
HandleState(h) ==
    IF h = 0 THEN "nil" ELSE IF h = -1 THEN "closed" ELSE hw[h].handle

InitHandle ==
    /\ db = << >>
    /\ d = "nil"
    /\ last = NoCall
    /\ firstAdd = [c \in Collections |-> <<>>]
    /\ deleted = {}
    /\ d0 = "nil"
    /\ db0 = << >>
    /\ wcol = [w \in Workers |-> inboxA]
    /\ flock = 0
    /\ seen = [w \in Workers |-> "nil"]
    /\ owner = [w \in Workers |-> NilItem]
    /\ conf = [Listen |-> "", Secure |-> FALSE, CertPath |-> "", KeyPath |-> ""]
    /\ setters = <<>>
    /\ sockType = ""
    /\ stopFn = "empty"
    /\ srv = "idle"
    /\ runPc = "new"
    /\ sig = "none"
    /\ nsig = 0
    /\ events = <<>>
    /\ caches = "empty"
    /\ storage = "open"
    /\ sockPath = ""
    /\ removed = <<>>
    /\ clock = 0
    /\ inflight = FALSE
    /\ shut = NoShutdown
    /\ rd \in {0, -1}
    /\ hw \in [Workers -> {NewCallOf(op) : op \in Operations}]
    /\ pc = [w \in Workers |-> IF hw[w].op = "AddTo" THEN "view" ELSE "open"]

\* what the calls leave alone
HandleFrame ==
    UNCHANGED <<db, d, last, firstAdd, deleted, d0, db0, wcol, seen, owner, conf,
                setters, sockType, stopFn, srv, runPc, sig, nsig, events, caches,
                storage, sockPath, removed, clock, inflight, shut>>

\* a transaction on the handle r.d holds: r.d.View or r.d.Update
Transaction(w) == [h |-> rd, st |-> HandleState(rd)]

\* addCollectionOnObject(r, col): r.loadOneFromBucket runs r.d.View on the
\* handle r.d holds before AddTo opened any, which panics on nil; the owner
\* it loads on an open handle may need to be saved
ViewOwner(w) ==
    /\ Running /\ pc[w] = "view"
    /\ \E ph \in {"save", "main"} :
          /\ ph = "save" => HandleState(rd) = "open"
          /\ hw' = [hw EXCEPT ![w].txs = @ \cup {Transaction(w)}, ![w].phase = ph]
    /\ pc' = [pc EXCEPT ![w] = IF HandleState(rd) = "nil" THEN "panic" ELSE "open"]
    /\ UNCHANGED <<rd, flock>>
    /\ HandleFrame

\* r.Open(): bolt.Open returns a handle once the lock of the file is free
OpenOk(w) ==
    /\ Running /\ pc[w] = "open"
    /\ flock = 0
    /\ flock' = w
    /\ rd' = w
    /\ hw' = [hw EXCEPT ![w].handle = "open"]
    /\ pc' = [pc EXCEPT ![w] = "tx"]
    /\ HandleFrame

\* r.Open(): bolt.Open fails to open the file and r.d is assigned nil; the
\* operation returns the error, the Save of addCollectionOnObject has its
\* error dropped, and Load goes on
OpenFails(w) ==
    /\ Running /\ pc[w] = "open"
    /\ rd' = 0
    /\ IF hw[w].phase = "save"
       THEN /\ hw' = [hw EXCEPT ![w].phase = "main"]
            /\ UNCHANGED pc
       ELSE IF hw[w].op = "Load"
       THEN /\ hw' = [hw EXCEPT ![w].openErr = TRUE]
            /\ pc' = [pc EXCEPT ![w] = "tx"]
       ELSE /\ hw' = [hw EXCEPT ![w].openErr = TRUE, ![w].err = "OpenError"]
            /\ pc' = [pc EXCEPT ![w] = "returned"]
    /\ UNCHANGED flock
    /\ HandleFrame

\* the transaction of the operation, on the handle r.d holds: it panics on
\* nil and fails on a closed handle
Tx(w) ==
    /\ Running /\ pc[w] = "tx"
    /\ hw' = [hw EXCEPT ![w].txs = @ \cup {Transaction(w)},
                        ![w].err = IF hw[w].phase = "save" \/ HandleState(rd) = "nil"
                                   THEN @
                                   ELSE IF HandleState(rd) = "open" THEN "ok"
                                   ELSE "Error"]
    /\ pc' = [pc EXCEPT ![w] = IF HandleState(rd) = "nil" THEN "panic" ELSE "close"]
    /\ UNCHANGED <<rd, flock>>
    /\ HandleFrame

\* the deferred r.Close(): it closes the handle r.d holds, and does nothing
\* when r.d is nil
CloseHandle(w) ==
    /\ Running /\ pc[w] = "close"
    /\ IF HandleState(rd) = "open"
       THEN /\ hw' = [hw EXCEPT ![rd].handle = "closed",
                               ![w].phase = "main"]
            /\ flock' = IF flock = rd THEN 0 ELSE flock
       ELSE /\ hw' = [hw EXCEPT ![w].phase = "main"]
            /\ UNCHANGED flock
    /\ pc' = [pc EXCEPT ![w] = IF hw[w].phase = "save" THEN "open" ELSE "returned"]
    /\ UNCHANGED rd
    /\ HandleFrame

NextHandle ==
    \E w \in Workers :
        ViewOwner(w) \/ OpenOk(w) \/ OpenFails(w) \/ Tx(w) \/ CloseHandle(w)

SpecHandle == InitHandle /\ [][NextHandle]_vars

\* C36: an operation that has returned has closed the handle it opened, so
\* that it does not hold the lock of the file.
C36_HandleClosedOnReturn ==
    \A w \in Workers :
        pc[w] = "returned" => (hw[w].handle # "open" /\ flock # w)

\* C37: every transaction of an operation runs on a handle that the same
\* call opened and has not closed.
C37_OwnOpenHandle ==
    \A w \in Workers :
        \A t \in hw[w].txs : t.h = w /\ t.st = "open"

\* C38: a Load whose Open failed starts no transaction and returns the
\* error of Open.
C38_LoadReturnsOpenError ==
    \A w \in Workers :
        (hw[w].op = "Load" /\ hw[w].openErr) =>
            /\ hw[w].txs = {}
            /\ pc[w] \in {"returned", "panic"} =>
                    (pc[w] = "returned" /\ hw[w].err = "OpenError")

(***************************************************************************)
(* The backend whose Open verifies the root bucket: Open returns the error *)
(* of the verification with the handle bolt.Open returned still open, and  *)
(* its callers return that error before they defer Close.                  *)
(***************************************************************************)
\* operations of the backend, which all open the database the same way
OldOperations == {"Load", "LoadActivities", "LoadObjects"}

\* the files the backend is pointed at: without the root bucket, with it,
\* and with items in it
OldFiles == {<< >>, CreateBucketIfNotExists(<< >>, rootBucket),
             save(<< >>, Object(objectN, "Note", NoColl)).s}

InitOld ==
    /\ db \in OldFiles
    /\ d = "nil"
    /\ last = NoCall
    /\ firstAdd = [c \in Collections |-> <<>>]
    /\ deleted = {}
    /\ d0 = "nil"
    /\ db0 = << >>
    /\ wcol = [w \in Workers |-> inboxA]
    /\ flock = 0
    /\ seen = [w \in Workers |-> "nil"]
    /\ owner = [w \in Workers |-> NilItem]
    /\ conf = [Listen |-> "", Secure |-> FALSE, CertPath |-> "", KeyPath |-> ""]
    /\ setters = <<>>
    /\ sockType = ""
    /\ stopFn = "empty"
    /\ srv = "idle"
    /\ runPc = "new"
    /\ sig = "none"
    /\ nsig = 0
    /\ events = <<>>
    /\ caches = "empty"
    /\ storage = "open"
    /\ sockPath = ""
    /\ removed = <<>>
    /\ clock = 0
    /\ inflight = FALSE
    /\ shut = NoShutdown
    /\ rd = 0
    /\ hw \in [Workers -> {NewCallOf(op) : op \in OldOperations}]
    /\ pc = [w \in Workers |-> "open"]

\* what the calls of the backend leave alone
OldFrame ==
    UNCHANGED <<d, last, firstAdd, deleted, d0, db0, wcol, seen, owner, conf,
                setters, sockType, stopFn, srv, runPc, sig, nsig, events, caches,
                storage, sockPath, removed, clock, inflight, shut>>

\* the verification of Open: the root bucket exists
rootVerified(s) == rootBucket \in DOMAIN s

\* b.Open() once bolt.Open has the lock: the handle stays open and the lock
\* held whether the verification passes or not, and the caller returns the
\* error
OldOpenResult(s, w) ==
    IF rootVerified(s) THEN [handle |-> "open", flock |-> w, err |-> "none", pc |-> "tx"]
    ELSE [handle |-> "open", flock |-> w, err |-> "Error", pc |-> "returned"]

\* b.Open(): bolt.Open waits for the lock of the file
OldOpen(w) ==
    /\ pc[w] = "open"
    /\ flock = 0
    /\ LET r == OldOpenResult(db, w)
       IN  /\ flock' = r.flock
           /\ hw' = [hw EXCEPT ![w].handle = r.handle, ![w].err = r.err,
                               ![w].openErr = r.err # "none"]
           /\ pc' = [pc EXCEPT ![w] = r.pc]
    /\ rd' = w
    /\ UNCHANGED db
    /\ OldFrame

\* the read of the operation
OldTx(w) ==
    /\ pc[w] = "tx"
    /\ hw' = [hw EXCEPT ![w].txs = @ \cup {Transaction(w)}, ![w].err = "ok"]
    /\ pc' = [pc EXCEPT ![w] = "close"]
    /\ UNCHANGED <<db, rd, flock>>
    /\ OldFrame

\* the deferred b.Close()
OldClose(w) ==
    /\ pc[w] = "close"
    /\ hw' = [hw EXCEPT ![rd].handle = "closed"]
    /\ flock' = IF flock = rd THEN 0 ELSE flock
    /\ pc' = [pc EXCEPT ![w] = "returned"]
    /\ UNCHANGED <<db, rd>>
    /\ OldFrame

\* the file is fixed by a process that gets its lock: the root bucket is
\* created
FixFile ==
    /\ flock = 0
    /\ ~rootVerified(db)
    /\ db' = CreateBucketIfNotExists(db, rootBucket)
    /\ UNCHANGED <<rd, hw, flock, pc>>
    /\ OldFrame

OldStep(w) == OldOpen(w) \/ OldTx(w) \/ OldClose(w)

NextOld == (\E w \in Workers : OldStep(w)) \/ FixFile

SpecOld == InitOld /\ [][NextOld]_vars /\ \A w \in Workers : WF_vars(OldStep(w))

\* C39: an Open that fails because the root bucket is missing releases the
\* lock of the file, so that every later call of Open returns.
C39_LaterOpenReturns ==
    \A w \in Workers : (pc[w] = "open") ~> (pc[w] = "returned")

====
